---- MODULE Spec2Model ----
(***************************************************************************)
(* A model of dangen-master/todoback.                                      *)
(*                                                                         *)
(* SpecMeta    _xref_meta_list: the merge of the three image metadata      *)
(*             sources of one page (src/pdf_to_html.py).                   *)
(* SpecDecide  _should_clip: the extract-or-clip decision.                 *)
(* SpecRender  pdf_to_html: the pages of a document and, for each page,    *)
(*             the images _render_page_html emits.                         *)
(* SpecWrite   main: two runs of the command line tool writing the same    *)
(*             output path, and a reader of that path.                     *)
(* SpecUpload  the PDF upload endpoints of src/api/routers/lessons.py and  *)
(*             src/main.py, handling requests one at a time.               *)
(* SpecAccess  the access tables, the repository functions that change     *)
(*             them and get_accessible_lessons_for_user.                   *)
(* SpecBlocks  create-lesson and patch-lesson requests and the rows of     *)
(*             lesson_blocks they leave.                                   *)
(* SpecSubjects  subjects and their access groups.                         *)
(* SpecUsers   ensure_user, get_current_user, require_roles and the role   *)
(*             endpoints, handling requests one at a time.                 *)
(* SpecNames   sanitize_filename, unique_named_path and the files of       *)
(*             uploads/pdfs.                                               *)
(* SpecGrants  user_tg_ids of create-lesson and patch-lesson, and the      *)
(*             lesson detail endpoint with can_view_lesson.                *)
(* SpecAuth    get_current_user in concurrent requests on one SQLite file. *)
(***************************************************************************)
EXTENDS Integers, Sequences, FiniteSets, TLC

VARIABLES
    \* ---- _xref_meta_list (one call, one page) ----
    mpc,        \* position: "src1", "src2", "src3", "filter", "done", "idle"
    mcount,     \* records consumed so far by the three loops
    meta,       \* the dict `meta`, in insertion order (a Python dict keeps it)
    out,        \* the list `out` that is returned
    supplied    \* history: what each source has supplied so far, per identifier

VARIABLES
    \* ---- _should_clip (one call) ----
    dpc,        \* "call" before the call, "ret" after it, "idle"
    dmeta,      \* the argument `meta`
    dmode,      \* the argument `image_mode`
    dresult     \* the value returned: "clip" (True), "extract" (False), "unset"

VARIABLES
    \* ---- pdf_to_html (one call) ----
    rpc,         \* "open", "page", "images", "done", "raised", "idle"
    rdoc,        \* the document: its pages, each with its three metadata sources
    rmode,       \* image_mode
    rscale,      \* scale
    handle,      \* the document handle: "none", "open", "closed"
    rpage,       \* index of the page being rendered (range(len(doc)), from 1)
    regions,     \* the records of _xref_meta_list(page) not yet visited
    images_html, \* images_html of the page being rendered
    spans_html,  \* spans_html of the page being rendered
    pages_html,  \* pages_html
    html,        \* the value returned
    rlast        \* history: what the last iteration of the image loop did

VARIABLES
    \* ---- main (the file-writing variant), run by two processes ----
    wpc,         \* per run: "start", "open", "write", "close", "done", "exit", "failed"
    woff,        \* per run: the offset of its open file, in chunks
    dest,        \* the file at args.output: [exists, data]
    dest0,       \* history: the file before any run started
    robs,        \* what the reader saw when it last read args.output
    lastClosed   \* history: the run that closed the file last (0: none)

VARIABLES
    \* ---- the PDF upload endpoints, one request at a time ----
    upc,         \* "idle", "validate", "store", "convert", "done", "off"
    ucount,      \* requests received so far
    ureq,        \* the request being handled
    uattrs,      \* the attributes the handler has assigned on the instance `l`
    urows,       \* table lessons: the row of each lesson id
    ustore,      \* the files below UPLOAD_DIR: a set of [path, data]
    uconv,       \* history: the call of pdf_to_html the handler made
    ustatus      \* the status code of the response (0: none yet)

VARIABLES
    \* ---- the access tables and get_accessible_lessons_for_user ----
    apc,          \* "on" while this machine runs, "off" otherwise
    alessons,     \* table lessons: id -> [subject_id, status, publish_at, group_id]
    amembers,     \* table group_members: pairs <<group_id, user_id>>
    asubjgroups,  \* table subject_access_groups: pairs <<subject_id, group_id>>
    alessongroups,\* table lesson_access_groups: pairs <<lesson_id, group_id>>
    agrants,      \* table lesson_access_users: pairs <<lesson_id, user_id>>
    anow,         \* the clock, in seconds
    aresult       \* what get_accessible_lessons_for_user returned on these tables

VARIABLES
    \* ---- POST /lessons and PATCH /lessons/{id}: the content blocks ----
    bpc,         \* "on" while this machine runs, "off" otherwise
    blessons,    \* table lessons: the set of lesson ids
    bblocks,     \* table lesson_blocks: rows [lesson_id, position, type, text, image_url]
    bresp        \* the last request and its response

VARIABLES
    \* ---- POST /subjects, PATCH and GET /subjects/{id} ----
    spc,         \* "on" while this machine runs, "off" otherwise
    ssubjects,   \* table subjects: the set of subject ids
    saccess,     \* table subject_access_groups: pairs <<subject_id, group_id>>
    sresp        \* the last request and its response

VARIABLES
    \* ---- users and roles: POST /user/ensure and the role endpoints ----
    usrpc,       \* "on" while this machine runs, "off" otherwise
    users,       \* table users: rows [id, telegram_id, username]
    user_roles,  \* table user_roles: pairs <<user_id, role code>>
    usrresp      \* the last request and its response

VARIABLES
    \* ---- sanitize_filename, unique_named_path and the files below uploads/pdfs ----
    npc,         \* "on" while this machine runs, "off" otherwise
    nfiles,      \* the folder uploads/pdfs: a set of [name, data]
    ncount,      \* uploads stored so far
    nlast,       \* history: the last upload, the name it was given and its path
    nsan         \* the last call of sanitize_filename: [name, result]

VARIABLES
    \* ---- personal grants and the lesson detail endpoint ----
    gpc,            \* "on" while this machine runs, "off" otherwise
    gusers,         \* table users
    guser_roles,    \* table user_roles: <<user_id, code>>
    gmembers,       \* table group_members: <<group_id, user_id>>
    glessons,       \* table lessons, lesson id = index
    glessongroups,  \* table lesson_access_groups: <<lesson_id, group_id>>
    ggrants,        \* table lesson_access_users: <<lesson_id, user_id>>
    gresp           \* history: the last request and its answer

VARIABLES
    \* ---- get_current_user in concurrent requests ----
    cpc,         \* per request: "lookup", "select", "flush", "commit", "ok",
                 \* "failed" (status 500), "idle"
    ctg,         \* per request: its X-Debug-Tg-Id
    cusers,      \* table users as committed
    croles,      \* table user_roles as committed: <<user_id, code>>
    cpending,    \* per request: the users row its session has flushed, not committed
    clock,       \* the request holding SQLite's write lock, 0 for none
    cme          \* per request: the id of the user it is authenticated as, 0 for none

metaVars == <<mpc, mcount, meta, out, supplied>>

decideVars == <<dpc, dmeta, dmode, dresult>>

renderVars == <<rpc, rdoc, rmode, rscale, handle, rpage, regions, spans_html,
                images_html, pages_html, html, rlast>>

writeVars == <<wpc, woff, dest, dest0, robs, lastClosed>>

uploadVars == <<upc, ucount, ureq, uattrs, urows, ustore, uconv, ustatus>>

accessVars == <<apc, alessons, amembers, asubjgroups, alessongroups, agrants, anow,
                aresult>>

blocksVars == <<bpc, blessons, bblocks, bresp>>

subjectsVars == <<spc, ssubjects, saccess, sresp>>

usersVars == <<usrpc, users, user_roles, usrresp>>

namesVars == <<npc, nfiles, ncount, nlast, nsan>>

grantsVars == <<gpc, gusers, guser_roles, gmembers, glessons, glessongroups, ggrants, gresp>>

authVars == <<cpc, ctg, cusers, croles, cpending, clock, cme>>

vars == <<metaVars, decideVars, renderVars, writeVars, uploadVars,
          accessVars, blocksVars, subjectsVars, usersVars, namesVars,
          grantsVars, authVars>>

\* What a step of one machine leaves alone: the other machines.
notMeta == <<decideVars, renderVars, writeVars, uploadVars, accessVars,
    blocksVars, subjectsVars, usersVars, namesVars, grantsVars, authVars>>
notDecide == <<metaVars, renderVars, writeVars, uploadVars, accessVars,
    blocksVars, subjectsVars, usersVars, namesVars, grantsVars, authVars>>
notRender == <<metaVars, decideVars, writeVars, uploadVars, accessVars,
    blocksVars, subjectsVars, usersVars, namesVars, grantsVars, authVars>>
notWrite == <<metaVars, decideVars, renderVars, uploadVars, accessVars,
    blocksVars, subjectsVars, usersVars, namesVars, grantsVars, authVars>>
notUpload == <<metaVars, decideVars, renderVars, writeVars, accessVars,
    blocksVars, subjectsVars, usersVars, namesVars, grantsVars, authVars>>
notAccess == <<metaVars, decideVars, renderVars, writeVars, uploadVars,
    blocksVars, subjectsVars, usersVars, namesVars, grantsVars, authVars>>
notBlocks == <<metaVars, decideVars, renderVars, writeVars, uploadVars,
    accessVars, subjectsVars, usersVars, namesVars, grantsVars, authVars>>
notSubjects == <<metaVars, decideVars, renderVars, writeVars, uploadVars,
    accessVars, blocksVars, usersVars, namesVars, grantsVars, authVars>>
notUsers == <<metaVars, decideVars, renderVars, writeVars, uploadVars,
    accessVars, blocksVars, subjectsVars, namesVars, grantsVars, authVars>>
notNames == <<metaVars, decideVars, renderVars, writeVars, uploadVars,
    accessVars, blocksVars, subjectsVars, usersVars, grantsVars, authVars>>
notGrants == <<metaVars, decideVars, renderVars, writeVars, uploadVars,
    accessVars, blocksVars, subjectsVars, usersVars, namesVars, authVars>>
notAuth == <<metaVars, decideVars, renderVars, writeVars, uploadVars,
    accessVars, blocksVars, subjectsVars, usersVars, namesVars, grantsVars>>

----------------------------------------------------------------------------
(* Bounds *)

MaxXref == 2        \* image identifiers are 1..MaxXref
MaxRecs == 3        \* records the three metadata sources of a page yield in all
MaxPages == 2       \* pages of a document
MaxChunks == 2      \* write(2) calls the longest output takes (flushes of the buffer)
MaxReqs == 2        \* upload requests, handled one after the other
MaxLessons == 2     \* lessons the create-lesson requests of one run store
MaxSubjects == 2    \* subjects the create-subject requests of one run store
MaxTg == 2          \* concurrent requests carry the Telegram ids 1..MaxTg
MaxUploads == 3     \* files uploaded one after the other
MaxGrantLessons == 1 \* lessons created while grants are followed
MaxAuthReqs == 2    \* concurrent requests going through get_current_user

----------------------------------------------------------------------------
(* Python values *)

\* None, where the field otherwise holds an integer.
NoneVal == -1

\* None, where the field otherwise holds a bounding box (tuple of 4 numbers).
BNone == <<>>

\* None, where the field otherwise holds a string (a tuple of characters).
CsNone == <<"<None>">>

\* Python truthiness of an optional integer: None and 0 are false.
Truthy(v) == v # NoneVal /\ v # 0

\* Python truthiness of an optional tuple: None and () are false.
BTruthy(b) == b # BNone

\* isinstance(v, int) for a value that is an integer or None.
IsInt(v) == v # NoneVal

\* `v or None`
OrNone(v) == IF Truthy(v) THEN v ELSE NoneVal

Xrefs == 1..MaxXref

CsDeviceRGB == <<"D", "e", "v", "i", "c", "e", "R", "G", "B">>
CsDeviceCMYK == <<"D", "e", "v", "i", "c", "e", "C", "M", "Y", "K">>

----------------------------------------------------------------------------
(* _xref_meta_list: the dict and the three passes *)

Has(m, x) == \E i \in 1..Len(m) : m[i].xref = x

Idx(m, x) == CHOOSE i \in 1..Len(m) : m[i].xref = x

\* meta.get(x), as a record; only used where Has(m, x).
Get(m, x) == m[Idx(m, x)]

NewRec(x) == [xref |-> x, smask |-> NoneVal, mask |-> NoneVal, cs |-> CsNone, bbox |-> BNone]

\* meta.setdefault(xref, {...all None...})
SetDefault(m, x) == IF Has(m, x) THEN m ELSE Append(m, NewRec(x))

\* meta[xref] = r : replaces the value in place, or inserts at the end.
Put(m, x, r) == IF Has(m, x) THEN [m EXCEPT ![Idx(m, x)] = r] ELSE Append(m, r)

\* Pass 1, one iteration: img is a tuple of page.get_images(full=True),
\* (xref, smask, width, height, bpc, colorspace, ...).
Src1Step(m, img) ==
    LET xref == img[1]
        smask == IF Len(img) > 1 THEN img[2] ELSE 0
        cs == IF Len(img) > 5 THEN img[6] ELSE CsNone
    IN  Put(m, xref, [xref |-> xref, smask |-> OrNone(smask), mask |-> NoneVal,
                      cs |-> cs, bbox |-> BNone])

\* Src2Step with `meta[xref]["bbox"] = rec.get("bbox")` unguarded (mutant).
Src2StepUnguarded(m, rec) ==
    IF IsInt(rec.xref)
    THEN LET m1 == SetDefault(m, rec.xref)
             i == Idx(m1, rec.xref)
             m2 == [m1 EXCEPT ![i].bbox = rec.bbox]
             m3 == IF Truthy(rec.smask) THEN [m2 EXCEPT ![i].smask = rec.smask] ELSE m2
             m4 == IF Truthy(rec.mask) THEN [m3 EXCEPT ![i].mask = rec.mask] ELSE m3
         IN  m4
    ELSE m

\* Pass 2, one iteration: rec is a dict of page.get_image_info(xrefs=True);
\* a key the dict lacks reads as None.
Src2Step(m, rec) ==
    IF IsInt(rec.xref)
    THEN LET m1 == SetDefault(m, rec.xref)
             i == Idx(m1, rec.xref)
             m2 == IF BTruthy(rec.bbox) THEN [m1 EXCEPT ![i].bbox = rec.bbox] ELSE m1
             m3 == IF Truthy(rec.smask) THEN [m2 EXCEPT ![i].smask = rec.smask] ELSE m2
             m4 == IF Truthy(rec.mask) THEN [m3 EXCEPT ![i].mask = rec.mask] ELSE m3
         IN  m4
    ELSE m

\* Src3Step without the `not meta[xref]["bbox"]` test (mutant).
Src3StepOverwrite(m, block) ==
    IF block.type # 1
    THEN m
    ELSE LET xref == IF IsInt(block.image) THEN block.image ELSE block.number
         IN  IF IsInt(xref)
             THEN LET m1 == SetDefault(m, xref)
                      i == Idx(m1, xref)
                  IN  IF BTruthy(block.bbox)
                      THEN [m1 EXCEPT ![i].bbox = block.bbox]
                      ELSE m1
             ELSE m

\* Pass 3, one iteration: block is a block of page.get_text("rawdict").
Src3Step(m, block) ==
    IF block.type # 1
    THEN m
    ELSE LET xref == IF IsInt(block.image) THEN block.image ELSE block.number
         IN  IF IsInt(xref)
             THEN LET m1 == SetDefault(m, xref)
                      i == Idx(m1, xref)
                  IN  IF ~BTruthy(m1[i].bbox) /\ BTruthy(block.bbox)
                      THEN [m1 EXCEPT ![i].bbox = block.bbox]
                      ELSE m1
             ELSE m

\* FilterOut without the `if x.get("bbox")` test (mutant).
FilterOutAll(m) == m

\* The final loop: only the records with a bbox are returned.
FilterOut(m) == SelectSeq(m, LAMBDA x : BTruthy(x.bbox))

----------------------------------------------------------------------------
(* What the library can hand to _xref_meta_list *)

BBoxA == <<0, 0, 2, 2>>
BBoxB == <<1, 1, 3, 2>>
BBoxes == {BBoxA, BBoxB}

\* get_images(full=True): the smask and colorspace of an entry are those of
\* the image object, so two entries of one xref agree on them.
Src1Imgs == {<<x, s, 4, 4, 8, c>> : x \in Xrefs, s \in {0, 5}, c \in {CsNone, CsDeviceCMYK}}

Src1Consistent(m, img) ==
    Has(m, img[1]) => /\ Get(m, img[1]).smask = OrNone(img[2])
                      /\ Get(m, img[1]).cs = img[6]

\* get_image_info(xrefs=True): one dict per placement of an image on the page,
\* so one xref can come with several bounding boxes.
\* The three keys are read independently of each other (lines 119-125): the
\* dicts carry a bounding box alone, a mask reference alone, all three, or none.
Src2Recs ==
    [xref : Xrefs, bbox : BBoxes \cup {BNone}, smask : {NoneVal}, mask : {NoneVal}]
    \cup [xref : Xrefs, bbox : {BNone}, smask : {5}, mask : {NoneVal}]
    \cup [xref : Xrefs, bbox : {BNone}, smask : {NoneVal}, mask : {6}]
    \cup [xref : Xrefs, bbox : {BBoxA}, smask : {5}, mask : {6}]
    \cup [xref : {NoneVal}, bbox : {BBoxA}, smask : {NoneVal}, mask : {NoneVal}]

\* The soft mask belongs to the image object: a dict that names one names the
\* one get_images listed for that xref.
Src2Consistent(m, listed, rec) ==
    (IsInt(rec.xref) /\ listed[rec.xref] # <<>> /\ Truthy(rec.smask)) =>
        Get(m, rec.xref).smask = rec.smask

\* "image" holds the image bytes in a rawdict block (not an int: NoneVal here),
\* "number" the block number.
Src3Blocks ==
    [type : {0}, image : {NoneVal}, number : {1}, bbox : {BBoxA}]
    \cup [type : {1}, image : {NoneVal}, number : Xrefs \cup {NoneVal}, bbox : BBoxes \cup {BNone}]
    \cup [type : {1}, image : Xrefs, number : {1}, bbox : BBoxes \cup {BNone}]

\* Per identifier: b2, b3 the non-null bounding boxes sources 2 and 3 supplied;
\* sm, mk the non-null soft and hard masks any source supplied; cs the tag of
\* source 1 (in a 1-tuple, <<>> while source 1 has not listed the identifier);
\* l2b, l2s, l2m the last non-null bounding box, soft mask and hard mask that
\* source 2 supplied.
NoSupply == [b2 |-> [x \in Xrefs |-> {}], b3 |-> [x \in Xrefs |-> {}],
             sm |-> [x \in Xrefs |-> {}], mk |-> [x \in Xrefs |-> {}],
             cs |-> [x \in Xrefs |-> <<>>],
             l2b |-> [x \in Xrefs |-> BNone], l2s |-> [x \in Xrefs |-> NoneVal],
             l2m |-> [x \in Xrefs |-> NoneVal]]

AddIf(f, x, cond, v) == IF cond THEN [f EXCEPT ![x] = @ \cup {v}] ELSE f

SetIf(f, x, cond, v) == IF cond THEN [f EXCEPT ![x] = v] ELSE f

----------------------------------------------------------------------------
(* _xref_meta_list as a state machine *)

MetaInit ==
    /\ mpc = "src1"
    /\ mcount = 0
    /\ meta = <<>>
    /\ out = <<>>
    /\ supplied = NoSupply

MetaIdle ==
    /\ mpc = "idle"
    /\ mcount = 0
    /\ meta = <<>>
    /\ out = <<>>
    /\ supplied = NoSupply

\* for img in page.get_images(full=True): ...
MetaSrc1 ==
    /\ mpc = "src1"
    /\ mcount < MaxRecs
    /\ \E img \in Src1Imgs :
        /\ Src1Consistent(meta, img)
        /\ meta' = Src1Step(meta, img)
        /\ supplied' = [supplied EXCEPT
                          !.sm = AddIf(@, img[1], Truthy(img[2]), img[2]),
                          !.cs = [@ EXCEPT ![img[1]] = <<img[6]>>]]
    /\ mcount' = mcount + 1
    /\ UNCHANGED <<mpc, out>>
    /\ UNCHANGED notMeta

MetaSrc1End ==
    /\ mpc = "src1"
    /\ mpc' = "src2"
    /\ UNCHANGED <<mcount, meta, out, supplied>>
    /\ UNCHANGED notMeta

\* for rec in page.get_image_info(xrefs=True): ...
MetaSrc2 ==
    /\ mpc = "src2"
    /\ mcount < MaxRecs
    /\ \E rec \in Src2Recs :
        /\ Src2Consistent(meta, supplied.cs, rec)
        /\ meta' = Src2Step(meta, rec)
        /\ supplied' = IF IsInt(rec.xref)
                       THEN [supplied EXCEPT
                               !.b2 = AddIf(@, rec.xref, BTruthy(rec.bbox), rec.bbox),
                               !.sm = AddIf(@, rec.xref, Truthy(rec.smask), rec.smask),
                               !.mk = AddIf(@, rec.xref, Truthy(rec.mask), rec.mask),
                               !.l2b = SetIf(@, rec.xref, BTruthy(rec.bbox), rec.bbox),
                               !.l2s = SetIf(@, rec.xref, Truthy(rec.smask), rec.smask),
                               !.l2m = SetIf(@, rec.xref, Truthy(rec.mask), rec.mask)]
                       ELSE supplied
    /\ mcount' = mcount + 1
    /\ UNCHANGED <<mpc, out>>
    /\ UNCHANGED notMeta

MetaSrc2End ==
    /\ mpc = "src2"
    /\ mpc' = "src3"
    /\ UNCHANGED <<mcount, meta, out, supplied>>
    /\ UNCHANGED notMeta

\* except Exception: pass -- the call, the iteration, or tuple(rec["bbox"])
\* raised; in the last case the record's setdefault has already run.
MetaSrc2Raise ==
    /\ mpc = "src2"
    /\ \E x \in Xrefs \cup {NoneVal} :
        meta' = IF IsInt(x) THEN SetDefault(meta, x) ELSE meta
    /\ mpc' = "src3"
    /\ UNCHANGED <<mcount, out, supplied>>
    /\ UNCHANGED notMeta

\* for block in raw.get("blocks", []): ...
MetaSrc3 ==
    /\ mpc = "src3"
    /\ mcount < MaxRecs
    /\ \E block \in Src3Blocks :
        LET xref == IF IsInt(block.image) THEN block.image ELSE block.number
        IN  /\ meta' = Src3Step(meta, block)
            /\ supplied' = IF block.type = 1 /\ IsInt(xref)
                           THEN [supplied EXCEPT
                                   !.b3 = AddIf(@, xref, BTruthy(block.bbox), block.bbox)]
                           ELSE supplied
    /\ mcount' = mcount + 1
    /\ UNCHANGED <<mpc, out>>
    /\ UNCHANGED notMeta

MetaSrc3End ==
    /\ mpc = "src3"
    /\ mpc' = "filter"
    /\ UNCHANGED <<mcount, meta, out, supplied>>
    /\ UNCHANGED notMeta

MetaFilter ==
    /\ mpc = "filter"
    /\ out' = FilterOut(meta)
    /\ mpc' = "done"
    /\ UNCHANGED <<mcount, meta, supplied>>
    /\ UNCHANGED notMeta

MetaNext ==
    \/ MetaSrc1
    \/ MetaSrc1End
    \/ MetaSrc2
    \/ MetaSrc2End
    \/ MetaSrc2Raise
    \/ MetaSrc3
    \/ MetaSrc3End
    \/ MetaFilter

----------------------------------------------------------------------------
(* Strings: a str is a tuple of one-character strings *)

Lowers == <<"a", "b", "c", "d", "e", "f", "g", "h", "i", "j", "k", "l", "m",
            "n", "o", "p", "q", "r", "s", "t", "u", "v", "w", "x", "y", "z">>

Uppers == <<"A", "B", "C", "D", "E", "F", "G", "H", "I", "J", "K", "L", "M",
            "N", "O", "P", "Q", "R", "S", "T", "U", "V", "W", "X", "Y", "Z">>

UpperChar(c) ==
    IF \E i \in 1..Len(Lowers) : Lowers[i] = c
    THEN Uppers[CHOOSE i \in 1..Len(Lowers) : Lowers[i] = c]
    ELSE c

LowerChar(c) ==
    IF \E i \in 1..Len(Uppers) : Uppers[i] = c
    THEN Lowers[CHOOSE i \in 1..Len(Uppers) : Uppers[i] = c]
    ELSE c

\* str.lower()
Lower(str) == [i \in 1..Len(str) |-> LowerChar(str[i])]

\* str.upper()
Upper(str) == [i \in 1..Len(str) |-> UpperChar(str[i])]

\* `pat in str`
Contains(str, pat) ==
    \E i \in 0..(Len(str) - Len(pat)) : SubSeq(str, i + 1, i + Len(pat)) = pat

\* `cs or ""`
OrEmpty(cs) == IF cs = CsNone \/ cs = <<>> THEN <<>> ELSE cs

StrCMYK == <<"C", "M", "Y", "K">>
StrICC == <<"I", "C", "C">>

----------------------------------------------------------------------------
(* _should_clip *)

ImageModes == {"auto", "extract", "clip"}

\* _should_clip comparing the tag as it is, without .upper() (mutant).
ShouldClipCaseSensitive(m, image_mode) ==
    IF image_mode = "clip" THEN TRUE
    ELSE IF image_mode = "extract" THEN FALSE
    ELSE LET cs == OrEmpty(m.cs)
         IN  IF Truthy(m.smask) \/ Truthy(m.mask) THEN TRUE
             ELSE IF Contains(cs, StrCMYK) \/ Contains(cs, StrICC) THEN TRUE
             ELSE FALSE

ShouldClip(m, image_mode) ==
    IF image_mode = "clip" THEN TRUE
    ELSE IF image_mode = "extract" THEN FALSE
    ELSE LET cs == Upper(OrEmpty(m.cs))
         IN  IF Truthy(m.smask) \/ Truthy(m.mask) THEN TRUE
             ELSE IF Contains(cs, StrCMYK) \/ Contains(cs, StrICC) THEN TRUE
             ELSE FALSE

\* Colorspace tags: the names PyMuPDF reports, the same in other cases, and
\* near misses.
CsDeviceGray == <<"D", "e", "v", "i", "c", "e", "G", "r", "a", "y">>
CsICCBased == <<"I", "C", "C", "B", "a", "s", "e", "d">>
CsIndexed == <<"I", "n", "d", "e", "x", "e", "d">>
CsLowerCmyk == <<"d", "e", "v", "i", "c", "e", "c", "m", "y", "k">>
CsMixedIcc == <<"I", "c", "c", "B", "a", "s", "e", "d">>
CsCMY == <<"D", "e", "v", "i", "c", "e", "C", "M", "Y">>
CsSplitIcc == <<"I", "C", "-", "C">>

CsTags == {CsNone, <<>>, CsDeviceRGB, CsDeviceGray, CsDeviceCMYK, CsICCBased,
           CsIndexed, CsLowerCmyk, CsMixedIcc, CsCMY, CsSplitIcc}

\* The records _xref_meta_list can return: smask and mask are None or a
\* non-zero xref, the bbox is set.
MetaRecs == [xref : Xrefs, smask : {NoneVal, 5}, mask : {NoneVal, 6},
             cs : CsTags, bbox : BBoxes]

NoMeta == NewRec(NoneVal)

DecideInit ==
    /\ dpc = "call"
    /\ dmeta \in MetaRecs
    /\ dmode \in ImageModes
    /\ dresult = "unset"

DecideIdle ==
    /\ dpc = "idle"
    /\ dmeta = NoMeta
    /\ dmode = "auto"
    /\ dresult = "unset"

Decide ==
    /\ dpc = "call"
    /\ dresult' = IF ShouldClip(dmeta, dmode) THEN "clip" ELSE "extract"
    /\ dpc' = "ret"
    /\ UNCHANGED <<dmeta, dmode>>
    /\ UNCHANGED notDecide

DecideNext == Decide

----------------------------------------------------------------------------
(* _xref_meta_list as a function of what the page's three queries return *)

RECURSIVE Fold1(_, _)
Fold1(m, imgs) == IF imgs = <<>> THEN m ELSE Fold1(Src1Step(m, Head(imgs)), Tail(imgs))

RECURSIVE Fold2(_, _)
Fold2(m, recs) == IF recs = <<>> THEN m ELSE Fold2(Src2Step(m, Head(recs)), Tail(recs))

RECURSIVE Fold3(_, _)
Fold3(m, blocks) == IF blocks = <<>> THEN m ELSE Fold3(Src3Step(m, Head(blocks)), Tail(blocks))

\* page.s2 holds the dicts pass 2 gets to see (those before an exception).
XrefMetaList(page) == FilterOut(Fold3(Fold2(Fold1(<<>>, page.s1), page.s2), page.s3))

----------------------------------------------------------------------------
(* Pixmaps *)

\* A fitz.Pixmap: csn is colorspace.n (0 when colorspace is None), alpha its
\* alpha flag.  NoPix stands for the constructor or the call raising, and for
\* the None that _pixmap_from_xref_safely returns.
NoPix == [ok |-> FALSE, csn |-> 0, alpha |-> FALSE]

Pix(csn, alpha) == [ok |-> TRUE, csn |-> csn, alpha |-> alpha]

\* fitz.Pixmap(colorspace, source): a copy of source converted to colorspace.
\* MuPDF converts with keep_alpha set, so the copy has the alpha of source;
\* a source without colorspace raises ValueError.
ConvertPix(csn, src) == IF src.csn = 0 THEN NoPix ELSE Pix(csn, src.alpha)

\* fitz.Pixmap(base, sm): base with sm as its alpha channel.
AddMask(base, sm) == Pix(base.csn, TRUE)

\* Lines 77-84: base after the soft-mask block; any exception inside leaves it.
WithSoftMask(base, smask_xref, env) ==
    IF Truthy(smask_xref) /\ ~base.alpha
    THEN LET sm0 == env.sm
             n == sm0.csn + (IF sm0.alpha THEN 1 ELSE 0)
             sm1 == IF ~sm0.ok THEN NoPix
                    ELSE IF n # 1 THEN ConvertPix(1, sm0)
                    ELSE sm0
         IN  IF sm1.ok /\ env.combine THEN AddMask(base, sm1) ELSE base
    ELSE base

\* _pixmap_from_xref_safely: env.base is what fitz.Pixmap(doc, xref) gives,
\* env.sm what fitz.Pixmap(doc, smask_xref) gives, env.combine whether
\* fitz.Pixmap(base, sm) succeeds.
PixmapFromXrefSafely(env, smask_xref, mask_xref) ==
    IF ~env.base.ok
    THEN NoPix
    ELSE LET b1 == WithSoftMask(env.base, smask_xref, env)
             b2 == IF ~(b1.csn # 0 /\ b1.csn = 3) THEN ConvertPix(3, b1) ELSE b1
             b3 == IF ~b2.ok THEN NoPix
                   ELSE IF b2.alpha THEN ConvertPix(3, b2)
                   ELSE b2
         IN  b3

\* _render_clip: env.clip is what page.get_pixmap(matrix, clip, alpha=False)
\* gives; NoPix when it raises, and then _render_clip raises.
RenderClip(env) ==
    LET pix == env.clip
    IN  IF ~pix.ok THEN NoPix
        ELSE IF ~(pix.csn # 0 /\ pix.csn = 3) \/ pix.alpha THEN ConvertPix(3, pix)
        ELSE pix

\* _png_dataurl_from_pixmap: the PNG has an alpha channel iff the pixmap has.
NoDataUrl == [set |-> FALSE, alpha |-> FALSE]

PngDataUrl(pix) == [set |-> TRUE, alpha |-> pix.alpha]

\* What the library calls of one loop iteration can return.
BasePixes == {NoPix} \cup {Pix(n, a) : n \in {0, 1, 3, 4}, a \in BOOLEAN}
SmPixes == {NoPix} \cup {Pix(n, a) : n \in {1, 3}, a \in BOOLEAN}
ClipPixes == {NoPix, Pix(3, FALSE)}
Envs == [base : BasePixes, sm : SmPixes, combine : BOOLEAN, clip : ClipPixes]

----------------------------------------------------------------------------
(* _render_page_html: one iteration of the image loop *)

NoImg == [xref |-> NoneVal, left |-> 0, top |-> 0, width |-> 0, height |-> 0,
          alpha |-> FALSE, via |-> "none"]

LogOf(m, tried, failed, clipCalled, clipRaised) ==
    [xref |-> m.xref, tried |-> tried, failed |-> failed,
     clipCalled |-> clipCalled, clipRaised |-> clipRaised]

NoLog == LogOf(NoMeta, FALSE, FALSE, FALSE, FALSE)

\* The loop body without the test of width and height (mutant).
ProcessImageNoSizeTest(m, image_mode, scale, env) ==
    LET x0 == m.bbox[1]
        y0 == m.bbox[2]
        x1 == m.bbox[3]
        y1 == m.bbox[4]
        width == (x1 - x0) * scale
        height == (y1 - y0) * scale
        decided == ShouldClip(m, image_mode)
        pix1 == IF ~decided THEN PixmapFromXrefSafely(env, m.smask, m.mask) ELSE NoPix
        use_clip == decided \/ ~pix1.ok
        pix2 == IF use_clip THEN RenderClip(env) ELSE NoPix
        dataurl == IF use_clip THEN PngDataUrl(pix2)
                   ELSE IF pix1.ok THEN PngDataUrl(pix1)
                   ELSE NoDataUrl
        log == LogOf(m, ~decided, ~decided /\ ~pix1.ok, use_clip, use_clip /\ ~pix2.ok)
    IN  IF use_clip /\ ~pix2.ok
        THEN [outcome |-> "raise", img |-> NoImg, log |-> log]
        ELSE IF ~dataurl.set
        THEN [outcome |-> "skip", img |-> NoImg, log |-> log]
        ELSE [outcome |-> "emit", log |-> log,
              img |-> [xref |-> m.xref, left |-> x0 * scale, top |-> y0 * scale,
                       width |-> width, height |-> height, alpha |-> dataurl.alpha,
                       via |-> IF use_clip THEN "clip" ELSE "extract"]]

\* The loop body without `else: use_clip = True` (mutant).
ProcessImageNoFallback(m, image_mode, scale, env) ==
    LET x0 == m.bbox[1]
        y0 == m.bbox[2]
        x1 == m.bbox[3]
        y1 == m.bbox[4]
        width == (x1 - x0) * scale
        height == (y1 - y0) * scale
    IN  IF width <= 0 \/ height <= 0
        THEN [outcome |-> "skip", img |-> NoImg, log |-> LogOf(m, FALSE, FALSE, FALSE, FALSE)]
        ELSE LET decided == ShouldClip(m, image_mode)
                 pix1 == IF ~decided THEN PixmapFromXrefSafely(env, m.smask, m.mask) ELSE NoPix
                 use_clip == decided
                 pix2 == IF use_clip THEN RenderClip(env) ELSE NoPix
                 dataurl == IF use_clip THEN PngDataUrl(pix2)
                            ELSE IF pix1.ok THEN PngDataUrl(pix1)
                            ELSE NoDataUrl
                 log == LogOf(m, ~decided, ~decided /\ ~pix1.ok, use_clip, use_clip /\ ~pix2.ok)
             IN  IF use_clip /\ ~pix2.ok
                 THEN [outcome |-> "raise", img |-> NoImg, log |-> log]
                 ELSE IF ~dataurl.set
                 THEN [outcome |-> "skip", img |-> NoImg, log |-> log]
                 ELSE [outcome |-> "emit", log |-> log,
                       img |-> [xref |-> m.xref, left |-> x0 * scale, top |-> y0 * scale,
                                width |-> width, height |-> height, alpha |-> dataurl.alpha,
                                via |-> IF use_clip THEN "clip" ELSE "extract"]]

\* Lines 217-254 for one record m of _xref_meta_list(page): "skip" is
\* `continue`, "emit" the append to images_html, "raise" an exception leaving
\* the loop (only _render_clip is called outside a try).
ProcessImage(m, image_mode, scale, env) ==
    LET x0 == m.bbox[1]
        y0 == m.bbox[2]
        x1 == m.bbox[3]
        y1 == m.bbox[4]
        width == (x1 - x0) * scale
        height == (y1 - y0) * scale
    IN  IF width <= 0 \/ height <= 0
        THEN [outcome |-> "skip", img |-> NoImg, log |-> LogOf(m, FALSE, FALSE, FALSE, FALSE)]
        ELSE LET decided == ShouldClip(m, image_mode)
                 pix1 == IF ~decided THEN PixmapFromXrefSafely(env, m.smask, m.mask) ELSE NoPix
                 use_clip == decided \/ ~pix1.ok
                 pix2 == IF use_clip THEN RenderClip(env) ELSE NoPix
                 dataurl == IF use_clip THEN PngDataUrl(pix2)
                            ELSE IF pix1.ok THEN PngDataUrl(pix1)
                            ELSE NoDataUrl
                 log == LogOf(m, ~decided, ~decided /\ ~pix1.ok, use_clip, use_clip /\ ~pix2.ok)
             IN  IF use_clip /\ ~pix2.ok
                 THEN [outcome |-> "raise", img |-> NoImg, log |-> log]
                 ELSE IF ~dataurl.set
                 THEN [outcome |-> "skip", img |-> NoImg, log |-> log]
                 ELSE [outcome |-> "emit", log |-> log,
                       img |-> [xref |-> m.xref, left |-> x0 * scale, top |-> y0 * scale,
                                width |-> width, height |-> height, alpha |-> dataurl.alpha,
                                via |-> IF use_clip THEN "clip" ELSE "extract"]]

----------------------------------------------------------------------------
(* Text spans *)

\* html.escape(t, quote=False) of one character, after t.replace("\r", "").
SanitizeChar(c) ==
    IF c = "\r" THEN <<>>
    ELSE IF c = "&" THEN <<"&", "a", "m", "p", ";">>
    ELSE IF c = "<" THEN <<"&", "l", "t", ";">>
    ELSE IF c = ">" THEN <<"&", "g", "t", ";">>
    ELSE <<c>>

RECURSIVE SanitizeText(_)
SanitizeText(t) ==
    IF t = <<>> THEN <<>> ELSE SanitizeChar(Head(t)) \o SanitizeText(Tail(t))

\* A span dict without the key "bbox".
NoKey == <<>>

\* span.get("bbox", (0, 0, 0, 0))
SpanBBox(span) == IF span.bbox = NoKey THEN <<0, 0, 0, 0>> ELSE span.bbox

\* The <div class="t"> of one span.
SpanDiv(span, scale) ==
    [left |-> SpanBBox(span)[1] * scale, top |-> SpanBBox(span)[2] * scale,
     text |-> SanitizeText(span.text)]

\* The spans of one block: a span with empty text is skipped.
RECURSIVE SpansOfBlock(_, _)
SpansOfBlock(spans, scale) ==
    IF spans = <<>> THEN <<>>
    ELSE IF Head(spans).text = <<>> THEN SpansOfBlock(Tail(spans), scale)
    ELSE <<SpanDiv(Head(spans), scale)>> \o SpansOfBlock(Tail(spans), scale)

\* for block in tdict.get("blocks", []): only blocks of type 0 are read.
RECURSIVE SpansHtml(_, _)
SpansHtml(blocks, scale) ==
    IF blocks = <<>> THEN <<>>
    ELSE IF Head(blocks).type # 0 THEN SpansHtml(Tail(blocks), scale)
    ELSE SpansOfBlock(Head(blocks).spans, scale) \o SpansHtml(Tail(blocks), scale)

\* The two layers in the other order (mutant).
SectionImagesFirst(spans, imgs) ==
    <<[cls |-> "image-layer", items |-> imgs], [cls |-> "text-layer", items |-> spans]>>

\* The page section: the text layer, then the image layer.
Section(spans, imgs) ==
    <<[cls |-> "text-layer", items |-> spans], [cls |-> "image-layer", items |-> imgs]>>

----------------------------------------------------------------------------
(* Documents *)

BBoxFlat == <<2, 2, 2, 3>>

Span(text, bbox) == [text |-> text, bbox |-> bbox]
TextBlock(spans) == [type |-> 0, spans |-> spans]
\* get_text("dict") lists the images of the page as blocks of type 1.
DictImageBlock == [type |-> 1, spans |-> <<>>]

ImgTuple(x, smask, cs) == <<x, smask, 4, 4, 8, cs>>
InfoDict(x, bbox) == [xref |-> x, bbox |-> bbox, smask |-> NoneVal, mask |-> NoneVal]
ImageBlock(number, bbox) == [type |-> 1, image |-> NoneVal, number |-> number, bbox |-> bbox]

\* A page without images.
PageEmpty == [s1 |-> <<>>, s2 |-> <<>>, s3 |-> <<>>, text |-> <<>>]

\* One RGB image without mask.
PagePlain == [s1 |-> <<ImgTuple(1, 0, CsDeviceRGB)>>,
              s2 |-> <<InfoDict(1, BBoxA)>>,
              s3 |-> <<ImageBlock(1, BBoxA)>>,
              text |-> <<TextBlock(<<Span(<<"a">>, BBoxA), Span(<<"<">>, BBoxB)>>),
                         DictImageBlock>>]

\* One RGB image with a soft mask, and an image no query locates.
PageSmask == [s1 |-> <<ImgTuple(1, 5, CsDeviceRGB), ImgTuple(2, 0, CsDeviceRGB)>>,
              s2 |-> <<InfoDict(1, BBoxB)>>,
              s3 |-> <<>>,
              \* a span without bounding box between two ordinary ones
              text |-> <<TextBlock(<<Span(<<"b">>, BBoxB), Span(<<"c">>, NoKey)>>),
                         TextBlock(<<Span(<<"d">>, BBoxA)>>)>>]

\* A CMYK image, and an RGB image only the rawdict locates.
PageTwo == [s1 |-> <<ImgTuple(1, 0, CsDeviceCMYK), ImgTuple(2, 0, CsDeviceRGB)>>,
            s2 |-> <<InfoDict(1, BBoxA)>>,
            s3 |-> <<ImageBlock(2, BBoxB)>>,
            \* a span without text and one with a carriage return
            text |-> <<DictImageBlock,
                       TextBlock(<<Span(<<>>, BBoxA), Span(<<"e", "\r">>, BBoxA)>>)>>]

\* An image of width 0 and an ordinary one.
PageFlat == [s1 |-> <<ImgTuple(1, 0, CsDeviceRGB), ImgTuple(2, 0, CsDeviceRGB)>>,
             s2 |-> <<InfoDict(1, BBoxFlat), InfoDict(2, BBoxA)>>,
             s3 |-> <<>>,
             text |-> <<>>]

Pages == {PageEmpty, PagePlain, PageSmask, PageTwo, PageFlat}

RECURSIVE SeqsUpTo(_, _)
SeqsUpTo(S, n) ==
    IF n = 0 THEN {<<>>}
    ELSE LET shorter == SeqsUpTo(S, n - 1)
         IN  shorter \cup {Append(q, e) : q \in shorter, e \in S}

Docs == SeqsUpTo(Pages, MaxPages)

Scales == {1, 2}

NoHtml == [set |-> FALSE, body |-> <<>>]

----------------------------------------------------------------------------
(* pdf_to_html as a state machine *)

RenderInit ==
    /\ rpc = "open"
    /\ rdoc \in Docs
    /\ rmode \in ImageModes
    /\ rscale \in Scales
    /\ handle = "none"
    /\ rpage = 0
    /\ regions = <<>>
    /\ spans_html = <<>>
    /\ images_html = <<>>
    /\ pages_html = <<>>
    /\ html = NoHtml
    /\ rlast = NoLog

RenderIdle ==
    /\ rpc = "idle"
    /\ rdoc = <<>>
    /\ rmode = "auto"
    /\ rscale = 1
    /\ handle = "none"
    /\ rpage = 0
    /\ regions = <<>>
    /\ spans_html = <<>>
    /\ images_html = <<>>
    /\ pages_html = <<>>
    /\ html = NoHtml
    /\ rlast = NoLog

\* Leaving the with block without closing the document (mutant).
ExitWithoutClose(h) == h

\* Leaving `with fitz.open(input_pdf) as doc:`, by return or by exception:
\* Document.__exit__ closes the document.
ExitWith(h) == IF h = "open" THEN "closed" ELSE h

\* with fitz.open(input_pdf) as doc:
OpenDoc ==
    /\ rpc = "open"
    /\ rpc' = "page"
    /\ handle' = "open"
    /\ rpage' = 1
    /\ UNCHANGED <<rdoc, rmode, rscale, regions, spans_html, images_html, pages_html,
                   html, rlast>>
    /\ UNCHANGED notRender

\* fitz.open raises: the input is no PDF.
OpenFails ==
    /\ rpc = "open"
    /\ rpc' = "raised"
    /\ UNCHANGED <<rdoc, rmode, rscale, handle, rpage, regions, spans_html, images_html,
                   pages_html, html, rlast>>
    /\ UNCHANGED notRender

\* _render_page_html up to the image loop.
PageStart ==
    /\ rpc = "page"
    /\ rpage <= Len(rdoc)
    /\ spans_html' = SpansHtml(rdoc[rpage].text, rscale)
    /\ regions' = XrefMetaList(rdoc[rpage])
    /\ images_html' = <<>>
    /\ rlast' = NoLog
    /\ rpc' = "images"
    /\ UNCHANGED <<rdoc, rmode, rscale, handle, rpage, pages_html, html>>
    /\ UNCHANGED notRender

\* for meta in _xref_meta_list(page): ... -- one iteration.
RenderImage ==
    /\ rpc = "images"
    /\ regions # <<>>
    /\ \E r \in {ProcessImage(Head(regions), rmode, rscale, env) : env \in Envs} :
            /\ rlast' = r.log
            /\ IF r.outcome = "raise"
               THEN \* the exception leaves _render_page_html and pdf_to_html;
                    \* the with statement closes the document
                    /\ rpc' = "raised"
                    /\ handle' = ExitWith(handle)
                    /\ regions' = <<>>
                    /\ spans_html' = <<>>
                    /\ images_html' = <<>>
                    /\ pages_html' = <<>>
               ELSE /\ rpc' = "images"
                    /\ handle' = handle
                    /\ regions' = Tail(regions)
                    /\ spans_html' = spans_html
                    /\ images_html' = IF r.outcome = "emit"
                                      THEN Append(images_html, r.img)
                                      ELSE images_html
                    /\ pages_html' = pages_html
    /\ UNCHANGED <<rdoc, rmode, rscale, rpage, html>>
    /\ UNCHANGED notRender

\* return of _render_page_html, pages_html.append(...)
PageEnd ==
    /\ rpc = "images"
    /\ regions = <<>>
    /\ pages_html' = Append(pages_html, Section(spans_html, images_html))
    /\ spans_html' = <<>>
    /\ images_html' = <<>>
    /\ rlast' = NoLog
    /\ rpage' = rpage + 1
    /\ rpc' = "page"
    /\ UNCHANGED <<rdoc, rmode, rscale, handle, regions, html>>
    /\ UNCHANGED notRender

\* return HTML_SHELL.format(...), leaving the with block
ReturnHtml ==
    /\ rpc = "page"
    /\ rpage > Len(rdoc)
    /\ html' = [set |-> TRUE, body |-> pages_html]
    /\ handle' = ExitWith(handle)
    /\ rpc' = "done"
    /\ UNCHANGED <<rdoc, rmode, rscale, rpage, regions, spans_html, images_html, pages_html,
                   rlast>>
    /\ UNCHANGED notRender

RenderNext ==
    \/ OpenDoc
    \/ OpenFails
    \/ PageStart
    \/ RenderImage
    \/ PageEnd
    \/ ReturnHtml

----------------------------------------------------------------------------
(* main: args.output.write_text(html_out) *)

Writers == {1, 2}

\* The HTML run w writes, as the chunks its buffered file object hands to the
\* operating system: chunk i of run w is <<w, i>>.  Run 1 writes the longest.
HtmlLen(w) == IF MaxChunks >= w THEN MaxChunks + 1 - w ELSE 1

HtmlOut(w) == [i \in 1..HtmlLen(w) |-> <<w, i>>]

\* A complete earlier version of the output.
PrevVersion == <<<<0, 1>>, <<0, 2>>>>

NoFile == [exists |-> FALSE, data |-> <<>>]

File(data) == [exists |-> TRUE, data |-> data]

\* The bytes a write past the end of a file leaves in between.
Hole == <<0, 0>>

\* write(2) of one chunk at offset off (counted from 0) of a file holding data.
WriteAt(data, off, chunk) ==
    LET n == IF Len(data) > off + 1 THEN Len(data) ELSE off + 1
    IN  [i \in 1..n |-> IF i = off + 1 THEN chunk
                        ELSE IF i <= Len(data) THEN data[i]
                        ELSE Hole]

WriteInit ==
    /\ wpc = [w \in Writers |-> "start"]
    /\ woff = [w \in Writers |-> 0]
    /\ dest0 \in {NoFile, File(PrevVersion)}
    /\ dest = dest0
    /\ robs = dest0
    /\ lastClosed = 0

WriteIdle ==
    /\ wpc = [w \in Writers |-> "idle"]
    /\ woff = [w \in Writers |-> 0]
    /\ dest0 = NoFile
    /\ dest = NoFile
    /\ robs = NoFile
    /\ lastClosed = 0

\* Lines 288-293: the input exists, pdf_to_html returns, mkdir.
Convert(w) ==
    /\ wpc[w] = "start"
    /\ wpc' = [wpc EXCEPT ![w] = "open"]
    /\ UNCHANGED <<woff, dest, dest0, robs, lastClosed>>
    /\ UNCHANGED notWrite

\* A main that catches the error and writes an empty output (mutant).
ConvertFailsWritesEmpty(w) ==
    /\ wpc[w] = "start"
    /\ wpc' = [wpc EXCEPT ![w] = "exit"]
    /\ dest' = File(<<>>)
    /\ UNCHANGED <<woff, dest0, robs, lastClosed>>
    /\ UNCHANGED notWrite

\* Lines 288-292: SystemExit for a missing input, or pdf_to_html raises
\* (fitz.open could not open or parse the input); the error leaves main.
ConvertFails(w) ==
    /\ wpc[w] = "start"
    /\ wpc' = [wpc EXCEPT ![w] = "exit"]
    /\ UNCHANGED <<woff, dest, dest0, robs, lastClosed>>
    /\ UNCHANGED notWrite

\* write_text: open(args.output, "w") creates the file or truncates it.
OpenTruncate(w) ==
    /\ wpc[w] = "open"
    /\ dest' = File(<<>>)
    /\ woff' = [woff EXCEPT ![w] = 0]
    /\ wpc' = [wpc EXCEPT ![w] = "write"]
    /\ UNCHANGED <<dest0, robs, lastClosed>>
    /\ UNCHANGED notWrite

\* write_text: one flush of the buffer, at the offset of this open file.
WriteChunk(w) ==
    /\ wpc[w] = "write"
    /\ woff[w] < HtmlLen(w)
    /\ dest' = File(WriteAt(dest.data, woff[w], HtmlOut(w)[woff[w] + 1]))
    /\ woff' = [woff EXCEPT ![w] = @ + 1]
    /\ UNCHANGED <<wpc, dest0, robs, lastClosed>>
    /\ UNCHANGED notWrite

\* write_text: a write raises OSError (disk full, I/O error) or the process
\* is interrupted; the error leaves main, nothing restores the file.
WriteFails(w) ==
    /\ wpc[w] = "write"
    /\ woff[w] < HtmlLen(w)
    /\ wpc' = [wpc EXCEPT ![w] = "failed"]
    /\ UNCHANGED <<woff, dest, dest0, robs, lastClosed>>
    /\ UNCHANGED notWrite

\* write_text: everything is written; the file is closed, main prints and ends.
CloseFile(w) ==
    /\ wpc[w] = "write"
    /\ woff[w] = HtmlLen(w)
    /\ wpc' = [wpc EXCEPT ![w] = "done"]
    /\ lastClosed' = w
    /\ UNCHANGED <<woff, dest, dest0, robs>>
    /\ UNCHANGED notWrite

\* Another process reads args.output.
ReaderReads ==
    /\ robs' = dest
    /\ UNCHANGED <<wpc, woff, dest, dest0, lastClosed>>
    /\ UNCHANGED notWrite

WriteNext ==
    \/ \E w \in Writers : Convert(w)
    \/ \E w \in Writers : ConvertFails(w)
    \/ \E w \in Writers : OpenTruncate(w)
    \/ \E w \in Writers : WriteChunk(w)
    \/ \E w \in Writers : WriteFails(w)
    \/ \E w \in Writers : CloseFile(w)
    \/ ReaderReads

----------------------------------------------------------------------------
(* The PDF upload endpoints *)

\* The four handlers: upload_pdf_and_convert_to_html and upload_lesson_pdf of
\* src/api/routers/lessons.py, and the two of the same names of src/main.py.
Endpoints == {"router_pdf_html", "router_pdf", "main_pdf_html", "main_pdf"}

\* The uploaded bytes: whether they start with %PDF-, and what fitz makes of
\* them: "pages" (a document with pages), "nopages" (len(doc) = 0) or
\* "corrupt" (fitz.open raises).
Contents ==
    [id : {1}, magic : {TRUE}, kind : {"pages", "nopages", "corrupt"}]
    \cup [id : {2}, magic : {FALSE}, kind : {"corrupt"}]

ContentTypes == {"application/pdf", "text/html"}

\* Lesson 1 exists, lesson 2 does not.
LessonIds == {1}

Requests == [ep : Endpoints, lesson_id : {1, 2}, content_type : ContentTypes,
             content : Contents]

NoRequest == [ep |-> "none", lesson_id |-> 0, content_type |-> "none",
              content |-> [id |-> 0, magic |-> FALSE, kind |-> "corrupt"]]

\* The columns class Lesson maps (src/models.py); pdf_url, pdf_filename,
\* html_content and html_url are not among them.
LessonColumns == {"id", "subject_id", "title", "status", "publish_at", "group_id"}

LessonRow(id) == [c \in LessonColumns |-> IF c = "id" THEN id ELSE 0]

\* session.commit(): the mapped columns of the instance are written; an
\* attribute that is no column stays on the Python object only.
Commit(row, attrs) ==
    [c \in DOMAIN row |-> IF c \in DOMAIN attrs THEN attrs[c] ELSE row[c]]

\* l.<name> = value
SetAttr(attrs, name, value) == (name :> value) @@ attrs

\* getattr(l, name, None) on an instance loaded by a later request.
StoredAttr(row, name) == IF name \in DOMAIN row THEN row[name] ELSE "<None>"

\* hasattr(l, name) on a freshly loaded instance.
HasAttr(row, name) == name \in DOMAIN row

\* A path below UPLOAD_DIR: file name <stem>.<ext>, or <stem>-<n>.<ext> for n >= 1.
PathOf(dir, stem, n, ext) == [dir |-> dir, stem |-> stem, n |-> n, ext |-> ext]

Exists(files, path) == \E f \in files : f.path = path

\* unique_named_path(folder, filename)
UniqueNamedPath(files, dir, stem, ext) ==
    LET free == {n \in 0..Cardinality(files) : ~Exists(files, PathOf(dir, stem, n, ext))}
    IN  PathOf(dir, stem, CHOOSE n \in free : \A k \in free : n <= k, ext)

\* abs_url(request, "/files/<dir>/<name>")
AbsUrl(path) == <<"url", path>>

\* The HTML pdf_to_html returns for an upload.
HtmlFor(content) == <<"html", content.id>>

\* An argument bound to the parameter `scale` of pdf_to_html.
FloatArg(v) == [type |-> "float", val |-> v]
PathArg(path) == [type |-> "Path", val |-> path]

NoCall == [made |-> FALSE, input_pdf |-> <<>>, scale |-> <<>>]

\* pw_pt * scale (line 180) is defined for a number; for a Path it raises
\* TypeError.
IsNumber(arg) == arg.type = "float"

\* The ways a call pdf_to_html(input_pdf, scale) can end: fitz.open raises on
\* bytes it cannot parse; with no page the loop body never runs; rendering a
\* page multiplies by scale and may raise in _render_clip.
PdfToHtmlOutcomes(content, scale) ==
    IF content.kind = "corrupt" THEN {"raise"}
    ELSE IF content.kind = "nopages" THEN {"return"}
    ELSE IF ~IsNumber(scale) THEN {"raise"}
    ELSE {"return", "raise"}

UploadInit ==
    /\ upc = "idle"
    /\ ucount = 0
    /\ ureq = NoRequest
    /\ uattrs = <<>>
    /\ urows = [id \in LessonIds |-> LessonRow(id)]
    /\ ustore = {}
    /\ uconv = NoCall
    /\ ustatus = 0

UploadIdle ==
    /\ upc = "off"
    /\ ucount = 0
    /\ ureq = NoRequest
    /\ uattrs = <<>>
    /\ urows = <<>>
    /\ ustore = {}
    /\ uconv = NoCall
    /\ ustatus = 0

\* A request arrives (require_roles has let it through).
UReceive ==
    /\ upc \in {"idle", "done"}
    /\ ucount < MaxReqs
    /\ ureq' \in Requests
    /\ ucount' = ucount + 1
    /\ upc' = "validate"
    /\ uattrs' = <<>>
    /\ uconv' = NoCall
    /\ ustatus' = 0
    /\ UNCHANGED <<urows, ustore>>
    /\ UNCHANGED notUpload

\* The checks a request fails with 404 or 415 (mutant: without them).
RejectionNone(req, rows) == 0

\* session.get(Lesson, lesson_id), file.content_type, content.startswith(b"%PDF-"):
\* the status the request is rejected with, 0 if it is not.
Rejection(req, rows) ==
    IF req.lesson_id \notin DOMAIN rows THEN 404
    ELSE IF req.content_type # "application/pdf" THEN 415
    ELSE IF ~req.content.magic THEN 415
    ELSE 0

\* The head of each of the four handlers.
UValidate ==
    /\ upc = "validate"
    /\ LET status == Rejection(ureq, urows)
       IN  IF status # 0
           THEN /\ ustatus' = status
                /\ upc' = "done"
           ELSE /\ ustatus' = 0
                /\ upc' = IF ureq.ep = "main_pdf_html" THEN "convert" ELSE "store"
    /\ UNCHANGED <<ucount, ureq, uattrs, urows, ustore, uconv>>
    /\ UNCHANGED notUpload

\* The uploaded PDF is written below uploads/pdfs, l.pdf_url is assigned and
\* the session is committed.
UStorePdf ==
    /\ upc = "store"
    /\ LET row == urows[ureq.lesson_id]
           path == IF ureq.ep = "main_pdf"
                   THEN UniqueNamedPath(ustore, "pdfs", "uuid4", "pdf")
                   ELSE UniqueNamedPath(ustore, "pdfs", "doc", "pdf")
           a1 == SetAttr(uattrs, "pdf_url", AbsUrl(path))
           a2 == IF ureq.ep = "main_pdf"
                 THEN SetAttr(a1, "pdf_filename",
                              IF HasAttr(row, "pdf_filename") THEN "doc.pdf" ELSE "<None>")
                 ELSE IF HasAttr(row, "pdf_filename")
                 THEN SetAttr(a1, "pdf_filename", "doc.pdf")
                 ELSE a1
       IN  /\ ustore' = ustore \cup {[path |-> path, data |-> ureq.content]}
           /\ uattrs' = a2
           /\ urows' = [urows EXCEPT ![ureq.lesson_id] = Commit(row, a2)]
    /\ IF ureq.ep = "router_pdf_html"
       THEN upc' = "convert" /\ ustatus' = 0
       ELSE upc' = "done" /\ ustatus' = 201
    /\ UNCHANGED <<ucount, ureq, uconv>>
    /\ UNCHANGED notUpload

\* The PDF stored by the request being handled (router_pdf_html).
StoredPdfPath ==
    (CHOOSE f \in ustore : AbsUrl(f.path) = uattrs["pdf_url"]).path

\* The file a path names.
FileAt(files, path) == CHOOSE f \in files : f.path = path

\* upload_pdf_and_convert_to_html of the router, from unique_named_path(htmls_dir,
\* ...) on: the call pdf_to_html(pdf_path, html_path) binds html_path to the
\* parameter scale; pdf_to_html returns a string and writes no file.
ConvertRouter(outcome) ==
    LET pdf_path == StoredPdfPath
        html_path == UniqueNamedPath(ustore, "htmls", "doc", "html")
        row == urows[ureq.lesson_id]
    IN  /\ uconv' = [made |-> TRUE, input_pdf |-> pdf_path, scale |-> PathArg(html_path)]
        /\ outcome \in PdfToHtmlOutcomes(ureq.content, PathArg(html_path))
        /\ IF outcome = "raise" \/ ~Exists(ustore, html_path)
           THEN \* except Exception / "PDF->HTML produced empty output"
                /\ ustatus' = 500
                /\ UNCHANGED <<uattrs, urows>>
           ELSE LET a1 == SetAttr(uattrs, "html_content", FileAt(ustore, html_path).data)
                    a2 == IF HasAttr(row, "html_url")
                          THEN SetAttr(a1, "html_url", AbsUrl(html_path))
                          ELSE a1
                IN  /\ ustatus' = 200
                    /\ uattrs' = a2
                    /\ urows' = [urows EXCEPT ![ureq.lesson_id] = Commit(row, a2)]

\* upload_pdf_and_convert_to_html of src/main.py: the bytes go to a temporary
\* file that is gone when the with block is left; pdf_to_html is called with
\* scale=96/72.
ConvertMain(outcome) ==
    LET row == urows[ureq.lesson_id]
    IN  /\ uconv' = [made |-> TRUE, input_pdf |-> "tmp", scale |-> FloatArg(1)]
        /\ outcome \in PdfToHtmlOutcomes(ureq.content, FloatArg(1))
        /\ IF outcome = "raise"
           THEN \* the exception leaves the handler
                /\ ustatus' = 500
                /\ UNCHANGED <<uattrs, urows>>
           ELSE LET a1 == SetAttr(uattrs, "html_content", HtmlFor(ureq.content))
                IN  /\ ustatus' = 200
                    /\ uattrs' = a1
                    /\ urows' = [urows EXCEPT ![ureq.lesson_id] = Commit(row, a1)]

UConvert ==
    /\ upc = "convert"
    /\ \E outcome \in {"return", "raise"} :
         IF ureq.ep = "router_pdf_html" THEN ConvertRouter(outcome) ELSE ConvertMain(outcome)
    /\ upc' = "done"
    /\ UNCHANGED <<ucount, ureq, ustore>>
    /\ UNCHANGED notUpload

UploadNext ==
    \/ UReceive
    \/ UValidate
    \/ UStorePdf
    \/ UConvert

----------------------------------------------------------------------------
(* Access to lessons *)

AUsers == {1, 2}
AGroups == {1, 2}
ASubjects == {1, 2}
ALessons == {1, 2}

\* A group id no row of table groups has.
NoSuchGroup == 3

\* NULL in a DateTime column (NoneVal stands for NULL in an integer column).
Null == <<>>

\* A DateTime column of SQLite holds text. A Python datetime bound as a
\* parameter is stored as 'YYYY-MM-DD HH:MM:SS.ffffff', here <<sec, usec>>; the
\* SQL function datetime('now') yields 'YYYY-MM-DD HH:MM:SS', here <<sec>>.
BoundDatetime(sec, usec) == <<sec, usec>>
SqlDatetime(sec) == <<sec>>

\* The comparison a <= b of two texts, character by character; a proper
\* prefix is smaller.
RECURSIVE TextLE(_, _)
TextLE(a, b) ==
    IF a = <<>> THEN TRUE
    ELSE IF b = <<>> THEN FALSE
    ELSE IF Head(a) # Head(b) THEN Head(a) < Head(b)
    ELSE TextLE(Tail(a), Tail(b))

ALesson(subject_id, status, publish_at, group_id) ==
    [subject_id |-> subject_id, status |-> status, publish_at |-> publish_at,
     group_id |-> group_id]

\* Databases the application starts on: table lessons (lesson 1 in subject
\* 1, lesson 2 in subject 2) and table lesson_access_users.
AccessDbs ==
    { [lessons |-> <<ALesson(1, "published", Null, NoneVal),
                     ALesson(2, "published", Null, NoneVal)>>,
       grants |-> {}],
      [lessons |-> <<ALesson(1, "published", BoundDatetime(2, 0), NoneVal),
                     ALesson(2, "draft", Null, NoneVal)>>,
       grants |-> {}],
      [lessons |-> <<ALesson(1, "published", SqlDatetime(2), 1),
                     ALesson(2, "published", BoundDatetime(3, 0), NoneVal)>>,
       grants |-> {}],
      [lessons |-> <<ALesson(1, "published", BoundDatetime(1, 0), NoneVal),
                     ALesson(2, "published", Null, NoneVal)>>,
       grants |-> {<<1, 2>>}] }

\* The seconds the clock shows.
Instants == {2, 3}

\* select(GroupMember.group_id).where(GroupMember.user_id == user_id)
UserGroups(members, user_id) == {m[1] : m \in {x \in members : x[2] = user_id}}

\* The WHERE clause of get_accessible_lessons_for_user for lesson id l.
\* The WHERE clause without the four ways of access (mutant).
LessonSelectedPublishedOnly(l, row, user_id, members, subjgroups, lessongroups, grants, now) ==
    /\ row.status = "published"
    /\ row.publish_at = Null \/ TextLE(row.publish_at, SqlDatetime(now))

LessonSelected(l, row, user_id, members, subjgroups, lessongroups, grants, now) ==
    LET user_groups == UserGroups(members, user_id)
        status_ok == row.status = "published"
        publish_ready == row.publish_at = Null \/ TextLE(row.publish_at, SqlDatetime(now))
        exists_personal == <<l, user_id>> \in grants
        exists_group_grant == \E g \in user_groups : <<l, g>> \in lessongroups
        lesson_group_match == row.group_id # NoneVal /\ row.group_id \in user_groups
        exists_subject_grant == \E g \in user_groups : <<row.subject_id, g>> \in subjgroups
    IN  /\ status_ok
        /\ publish_ready
        /\ \/ exists_personal
           \/ exists_group_grant
           \/ lesson_group_match
           \/ exists_subject_grant

\* ORDER BY id DESC of a set of ids.
RECURSIVE OrderByIdDesc(_)
OrderByIdDesc(ids) ==
    IF ids = {} THEN <<>>
    ELSE LET top == CHOOSE i \in ids : \A j \in ids : j <= i
         IN  <<top>> \o OrderByIdDesc(ids \ {top})

\* get_accessible_lessons_for_user(session, user_id=user_id): the lesson ids.
AccessibleLessons(lessons, user_id, members, subjgroups, lessongroups, grants, now) ==
    OrderByIdDesc({l \in DOMAIN lessons :
        LessonSelected(l, lessons[l], user_id, members, subjgroups, lessongroups, grants, now)})

NoResult == [user |-> 0, list |-> <<>>]

AccessInit ==
    /\ apc = "on"
    /\ \E db \in AccessDbs : alessons = db.lessons /\ agrants = db.grants
    /\ amembers = {}
    /\ asubjgroups = {}
    /\ alessongroups = {}
    /\ anow = 2
    /\ aresult = NoResult

AccessIdle ==
    /\ apc = "off"
    /\ alessons = <<>>
    /\ agrants = {}
    /\ amembers = {}
    /\ asubjgroups = {}
    /\ alessongroups = {}
    /\ anow = 0
    /\ aresult = NoResult

\* add_user_to_group and commit: nothing for a group that does not exist.
AddUserToGroup(u, g) ==
    /\ apc = "on"
    /\ amembers' = IF g \in AGroups THEN amembers \cup {<<g, u>>} ELSE amembers
    /\ aresult' = NoResult
    /\ UNCHANGED <<apc, alessons, asubjgroups, alessongroups, agrants, anow>>
    /\ UNCHANGED notAccess

\* remove_user_from_group and commit.
RemoveUserFromGroup(u, g) ==
    /\ apc = "on"
    /\ amembers' = amembers \ {<<g, u>>}
    /\ aresult' = NoResult
    /\ UNCHANGED <<apc, alessons, asubjgroups, alessongroups, agrants, anow>>
    /\ UNCHANGED notAccess

\* The rows replaced by one row per id passed, existing or not (mutant).
AttachGroupsUnfiltered(table, owner, ids) ==
    {r \in table : r[1] # owner} \cup {<<owner, g>> : g \in ids}

\* The rows of a table for one owner replaced by one row per existing group.
AttachGroups(table, owner, ids) ==
    {r \in table : r[1] # owner} \cup {<<owner, g>> : g \in ids \cap AGroups}

\* set_subject_groups(session, subject_id, group_ids) and commit.
SetSubjectGroups(subject, ids) ==
    /\ apc = "on"
    /\ asubjgroups' = AttachGroups(asubjgroups, subject, ids)
    /\ aresult' = NoResult
    /\ UNCHANGED <<apc, alessons, amembers, alessongroups, agrants, anow>>
    /\ UNCHANGED notAccess

\* set_lesson_groups(session, lesson_id, group_ids) and commit.
SetLessonGroups(lesson, ids) ==
    /\ apc = "on"
    /\ alessongroups' = AttachGroups(alessongroups, lesson, ids)
    /\ aresult' = NoResult
    /\ UNCHANGED <<apc, alessons, amembers, asubjgroups, agrants, anow>>
    /\ UNCHANGED notAccess

\* get_accessible_lessons_for_user(session, user_id=u)
GetAccessibleLessons(u) ==
    /\ apc = "on"
    /\ aresult' = [user |-> u,
                   list |-> AccessibleLessons(alessons, u, amembers, asubjgroups,
                                              alessongroups, agrants, anow)]
    /\ UNCHANGED <<apc, alessons, amembers, asubjgroups, alessongroups, agrants, anow>>
    /\ UNCHANGED notAccess

\* A second passes.
Tick ==
    /\ apc = "on"
    /\ anow + 1 \in Instants
    /\ anow' = anow + 1
    /\ aresult' = NoResult
    /\ UNCHANGED <<apc, alessons, amembers, asubjgroups, alessongroups, agrants>>
    /\ UNCHANGED notAccess

\* The group id lists the callers pass: subject groups name group 1 at most.
SubjectGroupIds == {{}, {1}, {1, NoSuchGroup}}
LessonGroupIds == {{}, {1}, {2}, {1, 2}, {2, NoSuchGroup}}

AccessNext ==
    \/ \E u \in AUsers, g \in AGroups \cup {NoSuchGroup} : AddUserToGroup(u, g)
    \/ \E u \in AUsers, g \in AGroups : RemoveUserFromGroup(u, g)
    \/ \E subject \in ASubjects, ids \in SubjectGroupIds : SetSubjectGroups(subject, ids)
    \/ \E lesson \in ALessons, ids \in LessonGroupIds : SetLessonGroups(lesson, ids)
    \/ \E u \in AUsers : GetAccessibleLessons(u)
    \/ Tick

----------------------------------------------------------------------------------------------------------------------------------------------------
(* Lesson blocks: create-lesson and patch-lesson *)

\* Characters str.strip() removes and \s matches.
Whitespace == {" ", "\t", "\n", "\r", "NBSP"}

\* str.lstrip()
RECURSIVE LStrip(_)
LStrip(s) ==
    IF s = <<>> THEN s
    ELSE IF Head(s) \in Whitespace THEN LStrip(Tail(s))
    ELSE s

\* str.rstrip()
RECURSIVE RStrip(_)
RStrip(s) ==
    IF s = <<>> THEN s
    ELSE IF s[Len(s)] \in Whitespace THEN RStrip(SubSeq(s, 1, Len(s) - 1))
    ELSE s

\* str.strip()
Strip(s) == RStrip(LStrip(s))

\* `v and str(v).strip()` for an optional string v (CsNone is None).
NonBlank(v) == v # CsNone /\ v # <<>> /\ Strip(v) # <<>>

\* A block of the payload: LessonBlockIn admits the types "text" and "image".
Block(type, text, image_url) == [type |-> type, text |-> text, image_url |-> image_url]

\* The tests of create_lesson on one block (lines 30-36): TRUE when none raises.
BlockPasses(b) ==
    /\ b.type \in {"text", "image"}
    /\ ~(b.type = "text" /\ ~NonBlank(b.text))
    /\ ~(b.type = "image" /\ ~NonBlank(b.image_url))

\* The validation loop of create_lesson without its tests (mutant).
PayloadInvalidNever(blocks) == FALSE

\* The validation loop of create_lesson: some block raises PayloadInvalidError.
PayloadInvalid(blocks) == \E i \in 1..Len(blocks) : ~BlockPasses(blocks[i])

\* The LessonBlock instances added for a payload: enumerate(blocks, start=1).
BlockRows(lesson_id, blocks) ==
    { [lesson_id |-> lesson_id, position |-> i, type |-> blocks[i].type,
       text |-> blocks[i].text, image_url |-> blocks[i].image_url] :
      i \in 1..Len(blocks) }

\* The CHECK constraints of table lesson_blocks: chk_block_text_when_text and
\* chk_block_image_when_image compare with NULL only.
CheckConstraints(row) ==
    /\ row.type # "text" \/ row.text # CsNone
    /\ row.type # "image" \/ row.image_url # CsNone

\* The payloads: blocks is None or a list; a text is None, "", " " or "t".
BlockTextOk == Block("text", <<"t">>, CsNone)
BlockTextNone == Block("text", CsNone, CsNone)
BlockTextEmpty == Block("text", <<>>, CsNone)
BlockTextBlank == Block("text", <<" ">>, CsNone)
BlockImageOk == Block("image", CsNone, <<"u">>)
BlockImageNone == Block("image", <<"t">>, CsNone)
BlockImageBlank == Block("image", CsNone, <<"\t", " ">>)

\* `blocks` absent from the payload (None), where it otherwise is a list.
BlocksNone == <<Block("<None>", CsNone, CsNone)>>

BlockLists ==
    { <<>>, <<BlockTextOk>>, <<BlockImageOk, BlockTextOk>>, <<BlockTextOk, BlockImageOk>>,
      <<BlockTextNone>>, <<BlockTextOk, BlockTextEmpty>>, <<BlockTextBlank>>,
      <<BlockImageNone>>, <<BlockImageBlank, BlockTextOk>> }

\* Subject 1 exists, subject 2 does not.
BSubjects == {1}

NoResponse == [op |-> "none", status |-> 0, lesson |-> 0, subject_id |-> 0,
               blocks |-> BlocksNone, pdf_url |-> FALSE]

BlocksInit ==
    /\ bpc = "on"
    /\ blessons = {}
    /\ bblocks = {}
    /\ bresp = NoResponse

BlocksIdle ==
    /\ bpc = "off"
    /\ blessons = {}
    /\ bblocks = {}
    /\ bresp = NoResponse

\* session.commit() of the rows a handler has added and deleted: the flush
\* raises IntegrityError when a row breaks a CHECK constraint, the exception
\* leaves the handler (status 500) and the transaction is rolled back.
CommitBlocks(lessons, rows, status) ==
    IF \A row \in rows : CheckConstraints(row)
    THEN /\ blessons' = lessons
         /\ bblocks' = rows
         /\ bresp'.status = status
    ELSE /\ UNCHANGED <<blessons, bblocks>>
         /\ bresp'.status = 500

\* The status of a handler that has committed and builds LessonOut or
\* LessonDetailOut from the instance, as if class Lesson mapped pdf_url
\* (mutant).
LessonOutStatusMapped(status, assigned) == status

\* The status of a handler that has committed and builds LessonOut or
\* LessonDetailOut from the instance: the arguments read lesson.pdf_url, and
\* class Lesson maps no column pdf_url, so the attribute is there only when the
\* handler assigned it to this instance; otherwise the read raises
\* AttributeError and the answer is 500.
LessonOutStatus(status, assigned) ==
    IF "pdf_url" \in LessonColumns \/ assigned THEN status ELSE 500

\* POST /lessons by a caller require_roles lets through: create_lesson of the
\* router and of the repository, then commit and the response.
CreateLesson(subject_id, blocks, pdf_url) ==
    /\ bpc = "on"
    /\ Cardinality(blessons) < MaxLessons
    /\ LET blocks_payload == IF blocks = BlocksNone THEN <<>> ELSE blocks
           passed == IF pdf_url THEN <<>> ELSE blocks_payload
           id == Cardinality(blessons) + 1
       IN  /\ bresp' \in [op : {"create"}, status : {201, 400, 404, 500},
                          lesson : {0, id}, subject_id : {subject_id},
                          blocks : {blocks}, pdf_url : {pdf_url}]
           /\ IF subject_id \notin BSubjects
              THEN /\ bresp'.status = 404
                   /\ bresp'.lesson = 0
                   /\ UNCHANGED <<blessons, bblocks>>
              ELSE IF PayloadInvalid(passed)
              THEN /\ bresp'.status = 400
                   /\ bresp'.lesson = 0
                   /\ UNCHANGED <<blessons, bblocks>>
              ELSE /\ CommitBlocks(blessons \cup {id}, bblocks \cup BlockRows(id, passed),
                                   LessonOutStatus(201, pdf_url))
                   /\ bresp'.lesson = IF id \in blessons' THEN id ELSE 0
    /\ UNCHANGED bpc
    /\ UNCHANGED notBlocks

\* replace_lesson_blocks: every row of the lesson is deleted, one row per
\* block of the payload is added; no block is tested.
ReplaceLessonBlocks(rows, lesson_id, blocks) ==
    {r \in rows : r.lesson_id # lesson_id} \cup BlockRows(lesson_id, blocks)

\* PATCH /lessons/{lesson_id} by a caller require_roles lets through:
\* patch_lesson of the router, update_lesson, then commit and the response;
\* pdf_url tells whether body.pdf_url is given.
PatchLesson(lesson_id, blocks, pdf_url) ==
    /\ bpc = "on"
    /\ bresp' \in [op : {"patch"}, status : {200, 404, 500}, lesson : {lesson_id},
                   subject_id : {0}, blocks : {blocks}, pdf_url : {pdf_url}]
    /\ IF lesson_id \notin blessons
       THEN /\ bresp'.status = 404
            /\ UNCHANGED <<blessons, bblocks>>
       ELSE IF blocks = BlocksNone
       THEN CommitBlocks(blessons, bblocks, LessonOutStatus(200, pdf_url))
       ELSE CommitBlocks(blessons, ReplaceLessonBlocks(bblocks, lesson_id, blocks),
                         LessonOutStatus(200, pdf_url))
    /\ UNCHANGED bpc
    /\ UNCHANGED notBlocks

BlocksNext ==
    \/ \E subject_id \in {1, 2}, blocks \in BlockLists \cup {BlocksNone},
          pdf_url \in BOOLEAN : CreateLesson(subject_id, blocks, pdf_url)
    \/ \E lesson_id \in 1..MaxLessons, blocks \in BlockLists \cup {BlocksNone},
          pdf_url \in BOOLEAN : PatchLesson(lesson_id, blocks, pdf_url)

----------------------------------------------------------------------------
(* Subjects and their access groups *)

\* group_ids absent from the payload (None), where it otherwise is a list.
IdsNone == <<NoneVal>>

\* {int(g) for g in (group_ids or [])}
IdSet(group_ids) ==
    IF group_ids = IdsNone THEN {} ELSE {group_ids[i] : i \in 1..Len(group_ids)}

\* The group id lists of the payloads: groups 1 and 2 exist.
GroupIdLists == {IdsNone, <<>>, <<1>>, <<2, 1>>, <<1, 1>>, <<1, NoSuchGroup>>}

\* The lists a SELECT without ORDER BY can return for a set of rows.
RowOrders(S) ==
    {order \in [1..Cardinality(S) -> S] : {order[i] : i \in 1..Cardinality(S)} = S}

\* select(SubjectAccessGroup.group_id).where(subject_id == s)
SubjectGroupRows(table, s) == {r[2] : r \in {x \in table : x[1] = s}}

NoSubjectResponse == [op |-> "none", status |-> 0, id |-> 0, sent |-> IdsNone,
                      group_ids |-> <<>>]

SubjectsInit ==
    /\ spc = "on"
    /\ ssubjects = {}
    /\ saccess = {}
    /\ sresp = NoSubjectResponse

SubjectsIdle ==
    /\ spc = "off"
    /\ ssubjects = {}
    /\ saccess = {}
    /\ sresp = NoSubjectResponse

\* POST /subjects by a caller require_roles lets through: create_subject,
\* set_subject_groups when group_ids is given, commit, and the read for the
\* response.
CreateSubject(group_ids) ==
    /\ spc = "on"
    /\ Cardinality(ssubjects) < MaxSubjects
    /\ LET id == Cardinality(ssubjects) + 1
           table == IF group_ids # IdsNone
                    THEN AttachGroups(saccess, id, IdSet(group_ids))
                    ELSE saccess
       IN  /\ ssubjects' = ssubjects \cup {id}
           /\ saccess' = table
           /\ \E gids \in RowOrders(SubjectGroupRows(table, id)) :
                sresp' = [op |-> "create", status |-> 201, id |-> id,
                          sent |-> group_ids, group_ids |-> gids]
    /\ UNCHANGED spc
    /\ UNCHANGED notSubjects

\* PATCH /subjects/{subject_id}: update_subject, commit, and the read for the
\* response.
PatchSubject(subject_id, group_ids) ==
    /\ spc = "on"
    /\ IF subject_id \notin ssubjects
       THEN /\ sresp' = [op |-> "patch", status |-> 404, id |-> subject_id,
                         sent |-> group_ids, group_ids |-> <<>>]
            /\ UNCHANGED saccess
       ELSE LET table == IF group_ids # IdsNone
                         THEN AttachGroups(saccess, subject_id, IdSet(group_ids))
                         ELSE saccess
            IN  /\ saccess' = table
                /\ \E gids \in RowOrders(SubjectGroupRows(table, subject_id)) :
                     sresp' = [op |-> "patch", status |-> 200, id |-> subject_id,
                               sent |-> group_ids, group_ids |-> gids]
    /\ UNCHANGED <<spc, ssubjects>>
    /\ UNCHANGED notSubjects

\* GET /subjects/{subject_id}: get_subject_with_group_ids.
GetSubject(subject_id) ==
    /\ spc = "on"
    /\ IF subject_id \notin ssubjects
       THEN sresp' = [op |-> "get", status |-> 404, id |-> subject_id,
                      sent |-> IdsNone, group_ids |-> <<>>]
       ELSE \E gids \in RowOrders(SubjectGroupRows(saccess, subject_id)) :
                sresp' = [op |-> "get", status |-> 200, id |-> subject_id,
                          sent |-> IdsNone, group_ids |-> gids]
    /\ UNCHANGED <<spc, ssubjects, saccess>>
    /\ UNCHANGED notSubjects

SubjectsNext ==
    \/ \E group_ids \in GroupIdLists : CreateSubject(group_ids)
    \/ \E subject_id \in 1..MaxSubjects, group_ids \in GroupIdLists :
          PatchSubject(subject_id, group_ids)
    \/ \E subject_id \in 1..MaxSubjects : GetSubject(subject_id)

----------------------------------------------------------------------------
(* Users and roles *)

\* The Telegram ids of the requests handled one at a time.
TgIds == {1, 2}

\* The roles seed_initial_data inserts.
RoleCodes == {"student", "teacher", "admin"}

\* The profile field of a payload: None or a name. first_name, last_name and
\* avatar_url are handled as username is.
Usernames == {CsNone, <<"a">>}

\* select(User).where(User.telegram_id == tg_id)
UserByTg(table, tg_id) == {u \in table : u.telegram_id = tg_id}

\* The role codes of a user: the rows of user_roles for user_id.
RolesOf(table, user_id) == {r[2] : r \in {x \in table : x[1] = user_id}}

\* _ensure_student_role that never assigns the role (mutant).
EnsureStudentRoleNever(table, user_id) == table

\* _ensure_student_role: the role student for a user that has no role at all.
EnsureStudentRole(table, user_id) ==
    IF RolesOf(table, user_id) # {} THEN table
    ELSE table \cup {<<user_id, "student">>}

\* ensure_user(session, tg_id, username=username): the two tables after the
\* call and the row returned.
EnsureUser(table, links, tg_id, username) ==
    IF UserByTg(table, tg_id) # {}
    THEN LET user == CHOOSE u \in UserByTg(table, tg_id) : TRUE
             updated == IF username # CsNone /\ user.username # username
                        THEN [user EXCEPT !.username = username]
                        ELSE user
         IN  [users |-> (table \ {user}) \cup {updated},
              user_roles |-> EnsureStudentRole(links, user.id),
              user |-> updated]
    ELSE LET user == [id |-> Cardinality(table) + 1, telegram_id |-> tg_id,
                      username |-> username]
         IN  [users |-> table \cup {user},
              user_roles |-> EnsureStudentRole(links, user.id),
              user |-> user]

\* No X-Debug-Tg-Id header.
NoHeader == 0

\* get_current_user: 401 without the header; a user that is not found is
\* created by ensure_user and committed.
GetCurrentUser(table, links, header) ==
    IF header = NoHeader
    THEN [status |-> 401, users |-> table, user_roles |-> links, user_id |-> 0]
    ELSE IF UserByTg(table, header) # {}
    THEN [status |-> 0, users |-> table, user_roles |-> links,
          user_id |-> (CHOOSE u \in UserByTg(table, header) : TRUE).id]
    ELSE LET e == EnsureUser(table, links, header, CsNone)
         IN  [status |-> 0, users |-> e.users, user_roles |-> e.user_roles,
              user_id |-> e.user.id]

\* require_roles without the test of the roles (mutant).
RequireRolesAnyone(allowed, table, links, header) ==
    GetCurrentUser(table, links, header)

\* require_roles(*allowed): get_current_user, then 403 unless the caller
\* holds one of the roles allowed.
RequireRoles(allowed, table, links, header) ==
    LET me == GetCurrentUser(table, links, header)
    IN  IF me.status # 0 THEN me
        ELSE IF RolesOf(me.user_roles, me.user_id) \cap allowed = {}
        THEN [me EXCEPT !.status = 403]
        ELSE me

Staff == {"admin", "teacher"}

NoUserResponse == [op |-> "none", status |-> 0, header |-> NoHeader, tg_id |-> 0,
                   role |-> "none", username |-> CsNone, profile |-> CsNone,
                   roles |-> {}]

\* The database init_db leaves (roles, no users), or that database after an
\* operator gave the first user the role admin.
UsersInit ==
    /\ usrpc = "on"
    /\ \/ users = {} /\ user_roles = {}
       \/ /\ users = {[id |-> 1, telegram_id |-> 1, username |-> CsNone]}
          /\ user_roles = {<<1, "admin">>}
    /\ usrresp = NoUserResponse

UsersIdle ==
    /\ usrpc = "off"
    /\ users = {}
    /\ user_roles = {}
    /\ usrresp = NoUserResponse

\* POST /user/ensure: ensure_user, commit, get_user_profile.
ApiEnsureUser(tg_id, username) ==
    /\ usrpc = "on"
    /\ LET e == EnsureUser(users, user_roles, tg_id, username)
       IN  /\ users' = e.users
           /\ user_roles' = e.user_roles
           /\ usrresp' = [op |-> "ensure", status |-> 200, header |-> NoHeader,
                          tg_id |-> e.user.telegram_id, role |-> "none",
                          username |-> username, profile |-> e.user.username,
                          roles |-> RolesOf(e.user_roles, e.user.id)]
    /\ UNCHANGED usrpc
    /\ UNCHANGED notUsers

\* POST /roles/{role}/members behind require_roles("admin", "teacher"):
\* add_role_to_user and commit. The roles of the path are those seeded.
AddRoleMember(header, role, tg_id) ==
    /\ usrpc = "on"
    /\ LET me == RequireRoles(Staff, users, user_roles, header)
           found == UserByTg(me.users, tg_id)
       IN  /\ users' = me.users
           /\ IF me.status # 0
              THEN /\ user_roles' = me.user_roles
                   /\ usrresp' = [NoUserResponse EXCEPT !.op = "add_role",
                                    !.status = me.status, !.header = header,
                                    !.tg_id = tg_id, !.role = role]
              ELSE IF found = {}
              THEN /\ user_roles' = me.user_roles
                   /\ usrresp' = [NoUserResponse EXCEPT !.op = "add_role",
                                    !.status = 404, !.header = header,
                                    !.tg_id = tg_id, !.role = role]
              ELSE /\ user_roles' = me.user_roles
                                    \cup {<<(CHOOSE u \in found : TRUE).id, role>>}
                   /\ usrresp' = [NoUserResponse EXCEPT !.op = "add_role",
                                    !.status = 200, !.header = header,
                                    !.tg_id = tg_id, !.role = role]
    /\ UNCHANGED usrpc
    /\ UNCHANGED notUsers

\* DELETE /roles/{role}/members/{tg_id} behind require_roles("admin",
\* "teacher"): remove_role_from_user and commit.
RemoveRoleMember(header, role, tg_id) ==
    /\ usrpc = "on"
    /\ LET me == RequireRoles(Staff, users, user_roles, header)
           found == UserByTg(me.users, tg_id)
       IN  /\ users' = me.users
           /\ IF me.status # 0
              THEN /\ user_roles' = me.user_roles
                   /\ usrresp' = [NoUserResponse EXCEPT !.op = "remove_role",
                                    !.status = me.status, !.header = header,
                                    !.tg_id = tg_id, !.role = role]
              ELSE IF found = {}
              THEN /\ user_roles' = me.user_roles
                   /\ usrresp' = [NoUserResponse EXCEPT !.op = "remove_role",
                                    !.status = 404, !.header = header,
                                    !.tg_id = tg_id, !.role = role]
              ELSE /\ user_roles' = me.user_roles
                                    \ {<<(CHOOSE u \in found : TRUE).id, role>>}
                   /\ usrresp' = [NoUserResponse EXCEPT !.op = "remove_role",
                                    !.status = 200, !.header = header,
                                    !.tg_id = tg_id, !.role = role]
    /\ UNCHANGED usrpc
    /\ UNCHANGED notUsers

UsersNext ==
    \/ \E tg_id \in TgIds, username \in Usernames : ApiEnsureUser(tg_id, username)
    \/ \E header \in TgIds \cup {NoHeader}, role \in RoleCodes, tg_id \in TgIds :
          AddRoleMember(header, role, tg_id)
    \/ \E header \in TgIds \cup {NoHeader}, role \in RoleCodes, tg_id \in TgIds :
          RemoveRoleMember(header, role, tg_id)

----------------------------------------------------------------------------
(* File names: sanitize_filename and unique_named_path *)

\* base[:180]
NameLimit == 180

\* _CTRL_CHARS, [\u0000-\u001F\u007F]: tab, line feed and carriage return are
\* among them.
CtrlChars == {"NUL", "\t", "\n", "\r", "DEL"}

\* _WIN_FORBIDDEN
WinForbidden == {"\\", "/", ":", "*", "?", "\"", "<", ">", "|"}

DotPdf == <<".", "p", "d", "f">>

\* "document.pdf"
FallbackName == <<"d", "o", "c", "u", "m", "e", "n", "t">> \o DotPdf

\* re.sub of a class of characters by "".
Remove(s, class) == SelectSeq(s, LAMBDA c : c \notin class)

\* re.sub(r"\s+", " ", s): the first character of a run of whitespace becomes
\* a space, the others of the run go.
CollapseSpaces(s) ==
    LET marked == [i \in 1..Len(s) |->
                      IF s[i] \notin Whitespace THEN s[i]
                      ELSE IF i > 1 /\ s[i - 1] \in Whitespace THEN "<dropped>"
                      ELSE " "]
    IN  SelectSeq(marked, LAMBDA c : c # "<dropped>")

\* str.endswith(suffix)
EndsWith(s, suffix) ==
    Len(s) >= Len(suffix) /\ SubSeq(s, Len(s) - Len(suffix) + 1, Len(s)) = suffix

\* s[:n]
Take(s, n) == SubSeq(s, 1, IF Len(s) < n THEN Len(s) ELSE n)

\* sanitize_filename(name), fallback="document.pdf"; CsNone is None.
SanitizeFilename(name) ==
    LET base0 == Strip(IF name = CsNone \/ name = <<>> THEN FallbackName ELSE name)
        base1 == Remove(base0, CtrlChars)
        base2 == Remove(base1, WinForbidden)
        base3 == Strip(CollapseSpaces(base2))
        base4 == IF base3 = <<>> THEN FallbackName ELSE base3
        base5 == IF EndsWith(Lower(base4), DotPdf) THEN base4 ELSE base4 \o DotPdf
    IN  Take(base5, NameLimit)

\* n characters "x".
Pad(n) == [i \in 1..n |-> "x"]

\* The names sanitize_filename is called with.
NameInputs ==
    { CsNone, <<>>, <<" ">>, <<"\t">>, <<"a">>, <<"a", ".", "p", "d", "f">>,
      <<"A", ".", "P", "D", "F">>, <<" ", "a", " ", "/", "b">> \o DotPdf,
      <<"a", " ", "NBSP", "b">>, <<"NUL", ":", "a", "\n">>, <<"/", "?">>,
      Pad(NameLimit - 4) \o DotPdf, Pad(NameLimit - 3) \o DotPdf,
      Pad(NameLimit), Pad(NameLimit + 20) }

\* The position of the last "." of a name, 0 if it has none.
LastDot(name) ==
    LET dots == {i \in 1..Len(name) : name[i] = "."}
    IN  IF dots = {} THEN 0 ELSE CHOOSE i \in dots : \A j \in dots : j <= i

\* Path(filename).suffix: from the last dot on, unless that dot comes first or
\* last.
Suffix(name) ==
    LET i == LastDot(name)
    IN  IF 1 < i /\ i < Len(name) THEN SubSeq(name, i, Len(name)) ELSE <<>>

\* Path(filename).stem
Stem(name) == SubSeq(name, 1, Len(name) - Len(Suffix(name)))

Digits == <<"0", "1", "2", "3", "4", "5", "6", "7", "8", "9">>

\* str(i) of an integer i >= 0
RECURSIVE IntStr(_)
IntStr(i) ==
    IF i < 10 THEN <<Digits[i + 1]>>
    ELSE IntStr(i \div 10) \o <<Digits[(i % 10) + 1]>>

\* p.exists() for the file of that name in the folder
NameExists(files, name) == \E f \in files : f.name = name

\* f"{stem}-{i}{ext}"
Candidate(filename, i) == Stem(filename) \o <<"-">> \o IntStr(i) \o Suffix(filename)

\* The loop of unique_named_path from the value i on.
RECURSIVE FirstCandidate(_, _, _)
FirstCandidate(files, filename, i) ==
    IF ~NameExists(files, Candidate(filename, i)) THEN Candidate(filename, i)
    ELSE FirstCandidate(files, filename, i + 1)

\* unique_named_path without the test of existence (mutant).
UniqueNamedPathAsGiven(files, filename) == filename

\* unique_named_path(folder, filename), the file name of the path returned.
UniqueNamedPathIn(files, filename) ==
    IF ~NameExists(files, filename) THEN filename
    ELSE FirstCandidate(files, filename, 1)

\* fpath.write_bytes(content): a file of that name is replaced.
WriteBytes(files, name, data) ==
    {f \in files : f.name # name} \cup {[name |-> name, data |-> data]}

\* The file names uploads carry: file.filename is None, "a.pdf" or "a-1.pdf".
UploadNames == {CsNone, <<"a">> \o DotPdf, <<"a", "-", "1">> \o DotPdf}

NoUpload == [filename |-> CsNone, name |-> <<>>, path |-> <<>>, data |-> 0]

NoSanitize == [name |-> CsNone, result |-> <<>>]

NamesInit ==
    /\ npc = "on"
    /\ nfiles = {}
    /\ ncount = 0
    /\ nlast = NoUpload
    /\ nsan = NoSanitize

NamesIdle ==
    /\ npc = "off"
    /\ nfiles = {}
    /\ ncount = 0
    /\ nlast = NoUpload
    /\ nsan = NoSanitize

\* A call sanitize_filename(name).
Sanitize(name) ==
    /\ npc = "on"
    /\ nsan' = [name |-> name, result |-> SanitizeFilename(name)]
    /\ UNCHANGED <<npc, nfiles, ncount, nlast>>
    /\ UNCHANGED notNames

\* upload_lesson_pdf of the router from `folder = UPLOAD_DIR / "pdfs"` to
\* write_bytes, for a request that passed the checks; the lesson has no
\* attribute pdf_filename.
StoreUpload(filename, data) ==
    /\ npc = "on"
    /\ ncount < MaxUploads
    /\ LET original_name ==
               SanitizeFilename(IF filename = CsNone \/ filename = <<>>
                                THEN FallbackName ELSE filename)
           fpath == UniqueNamedPathIn(nfiles, original_name)
       IN  /\ nfiles' = WriteBytes(nfiles, fpath, data)
           /\ nlast' = [filename |-> filename, name |-> original_name,
                        path |-> fpath, data |-> data]
    /\ ncount' = ncount + 1
    /\ UNCHANGED <<npc, nsan>>
    /\ UNCHANGED notNames

NamesNext ==
    \/ \E name \in NameInputs : Sanitize(name)
    \/ \E filename \in UploadNames, data \in {1, 2} : StoreUpload(filename, data)

----------------------------------------------------------------------------
(* Personal grants and the lesson detail endpoint *)

\* The second the clock shows while this machine runs.
GNow == 2

\* publish_at of a payload: None, or a datetime in the future.
PublishAts == {Null, BoundDatetime(3, 0)}

\* group_ids of a payload that does not carry the field.
NotGiven == {NoneVal}

PayloadGroupIds == {NotGiven, {}, {1}}

\* user_tg_ids of a payload: None or [] (both falsy), a user that exists, a
\* Telegram id no user has.
PayloadTgIds == {<<>>, <<2>>, <<3>>}

\* session.merge(LessonAccessUser(lesson_id=lesson_id, user_id=uid)) as
\* update_lesson writes it: merge of an AsyncSession is a coroutine function,
\* the call is not awaited, so the coroutine never runs and the session
\* receives no row.
SessionMerge(grants, lesson_id, uid) == grants

\* The loop `for tg in ...: u = await users_repo.ensure_user(session, tg)` of
\* create_lesson and patch_lesson: the tables after it and the ids collected.
RECURSIVE EnsureUsers(_, _, _)
EnsureUsers(table, links, tgs) ==
    IF tgs = <<>> THEN [users |-> table, user_roles |-> links, ids |-> <<>>]
    ELSE LET e == EnsureUser(table, links, Head(tgs), CsNone)
             rest == EnsureUsers(e.users, e.user_roles, Tail(tgs))
         IN  [rest EXCEPT !.ids = <<e.user.id>> \o rest.ids]

\* The loop `for uid in user_ids: session.merge(...)` of update_lesson.
RECURSIVE MergeGrants(_, _, _)
MergeGrants(grants, lesson_id, user_ids) ==
    IF user_ids = <<>> THEN grants
    ELSE MergeGrants(SessionMerge(grants, lesson_id, Head(user_ids)), lesson_id,
                     Tail(user_ids))

\* select(LessonAccessGroup.group_id).where(lesson_id == lesson_id)
GroupIdsOf(lessongroups, lesson_id) ==
    {r[2] : r \in {x \in lessongroups : x[1] = lesson_id}}

\* can_view_lesson(session, tg_id, lesson_group_ids)
CanViewLesson(table, links, members, tg_id, lesson_group_ids) ==
    IF lesson_group_ids = {} THEN TRUE
    ELSE IF tg_id = NoHeader THEN FALSE
    ELSE IF UserByTg(table, tg_id) = {} THEN FALSE
    ELSE LET prof == CHOOSE u \in UserByTg(table, tg_id) : TRUE
             codes == RolesOf(links, prof.id)
             my_groups == UserGroups(members, prof.id)
         IN  IF "admin" \in codes \/ "teacher" \in codes THEN TRUE
             ELSE \E g \in lesson_group_ids : g \in my_groups

NoGrantsResponse ==
    [op |-> "none", status |-> 0, header |-> NoHeader, lesson |-> 0,
     user_tg_ids |-> <<>>, committed |-> FALSE]

\* User 1 holds admin and user 2 is a student, in group 1 or in no group; no
\* lesson yet.
GrantsInit ==
    /\ gpc = "on"
    /\ gusers = {[id |-> 1, telegram_id |-> 1, username |-> CsNone],
                 [id |-> 2, telegram_id |-> 2, username |-> CsNone]}
    /\ guser_roles = {<<1, "admin">>, <<2, "student">>}
    /\ gmembers \in {{}, {<<1, 2>>}}
    /\ glessons = <<>>
    /\ glessongroups = {}
    /\ ggrants = {}
    /\ gresp = NoGrantsResponse

GrantsIdle ==
    /\ gpc = "off"
    /\ gusers = {}
    /\ guser_roles = {}
    /\ gmembers = {}
    /\ glessons = <<>>
    /\ glessongroups = {}
    /\ ggrants = {}
    /\ gresp = NoGrantsResponse

\* A request that require_roles or get_current_user turns away: the user
\* get_current_user may have created is committed, nothing else changes.
TurnedAway(op, me, header, lesson_id, tgs) ==
    /\ gusers' = me.users
    /\ guser_roles' = me.user_roles
    /\ gresp' = [op |-> op, status |-> me.status, header |-> header,
                 lesson |-> lesson_id, user_tg_ids |-> tgs, committed |-> FALSE]
    /\ UNCHANGED <<gmembers, glessons, glessongroups, ggrants>>

\* POST /lessons for subject 1, without blocks: create_lesson of the router.
GrantsCreateLesson(header, publish, publish_at, group_ids, user_tg_ids, pdf_url) ==
    /\ gpc = "on"
    /\ Len(glessons) < MaxGrantLessons
    /\ LET me == RequireRoles(Staff, gusers, guser_roles, header)
           id == Len(glessons) + 1
           lesson == ALesson(1, IF publish THEN "published" ELSE "draft",
                             publish_at, NoneVal)
           e == EnsureUsers(me.users, me.user_roles, user_tg_ids)
       IN  IF me.status # 0 THEN TurnedAway("create", me, header, 0, user_tg_ids)
           ELSE /\ glessons' = Append(glessons, lesson)
                /\ glessongroups' = IF group_ids = NotGiven THEN glessongroups
                                    ELSE AttachGroups(glessongroups, id, group_ids)
                /\ gusers' = e.users
                /\ guser_roles' = e.user_roles
                /\ ggrants' = MergeGrants(ggrants, id, e.ids)
                /\ gresp' = [op |-> "create", status |-> LessonOutStatus(201, pdf_url),
                             header |-> header, lesson |-> id,
                             user_tg_ids |-> user_tg_ids, committed |-> TRUE]
                /\ UNCHANGED gmembers
    /\ UNCHANGED gpc
    /\ UNCHANGED notGrants

\* The values of `publish` in a patch: None, True, False.
PatchPublish == {"<None>", "True", "False"}

\* PATCH /lessons/{lesson_id}: patch_lesson of the router and update_lesson.
\* Without the lesson the answer is 404 and the session is closed without a
\* commit, so the users ensure_user added are not kept.
GrantsPatchLesson(header, lesson_id, publish, group_ids, user_tg_ids, pdf_url) ==
    /\ gpc = "on"
    /\ LET me == RequireRoles(Staff, gusers, guser_roles, header)
           e == EnsureUsers(me.users, me.user_roles, user_tg_ids)
       IN  IF me.status # 0 THEN TurnedAway("patch", me, header, lesson_id, user_tg_ids)
           ELSE IF lesson_id \notin DOMAIN glessons
           THEN TurnedAway("patch", [me EXCEPT !.status = 404], header, lesson_id,
                           user_tg_ids)
           ELSE /\ glessons' =
                       IF publish = "<None>" THEN glessons
                       ELSE [glessons EXCEPT ![lesson_id].status =
                                IF publish = "True" THEN "published" ELSE "draft"]
                /\ glessongroups' = IF group_ids = NotGiven THEN glessongroups
                                    ELSE AttachGroups(glessongroups, lesson_id, group_ids)
                /\ gusers' = e.users
                /\ guser_roles' = e.user_roles
                /\ ggrants' = MergeGrants(ggrants, lesson_id, e.ids)
                /\ gresp' = [op |-> "patch", status |-> LessonOutStatus(200, pdf_url),
                             header |-> header, lesson |-> lesson_id,
                             user_tg_ids |-> user_tg_ids, committed |-> TRUE]
                /\ UNCHANGED gmembers
    /\ UNCHANGED gpc
    /\ UNCHANGED notGrants

\* GET /lessons/{lesson_id}: get_lesson_by_id of the router. The handler
\* assigns no pdf_url to the instance it loaded.
GetLessonById(header, lesson_id) ==
    /\ gpc = "on"
    /\ LET me == GetCurrentUser(gusers, guser_roles, header)
           gids == GroupIdsOf(glessongroups, lesson_id)
       IN  IF me.status # 0 THEN TurnedAway("get", me, header, lesson_id, <<>>)
           ELSE IF lesson_id \notin DOMAIN glessons
           THEN TurnedAway("get", [me EXCEPT !.status = 404], header, lesson_id, <<>>)
           ELSE IF ~CanViewLesson(me.users, me.user_roles, gmembers, header, gids)
           THEN TurnedAway("get", [me EXCEPT !.status = 403], header, lesson_id, <<>>)
           ELSE TurnedAway("get", [me EXCEPT !.status = LessonOutStatus(200, FALSE)],
                           header, lesson_id, <<>>)
    /\ UNCHANGED gpc
    /\ UNCHANGED notGrants

GrantsNext ==
    \/ \E header \in {1, 2}, publish \in BOOLEAN, publish_at \in PublishAts,
          group_ids \in {NotGiven, {1}}, user_tg_ids \in PayloadTgIds,
          pdf_url \in BOOLEAN :
          GrantsCreateLesson(header, publish, publish_at, group_ids, user_tg_ids, pdf_url)
    \/ \E lesson_id \in 1..(MaxGrantLessons + 1), publish \in PatchPublish,
          group_ids \in PayloadGroupIds, user_tg_ids \in PayloadTgIds,
          pdf_url \in BOOLEAN :
          GrantsPatchLesson(1, lesson_id, publish, group_ids, user_tg_ids, pdf_url)
    \/ \E header \in {NoHeader, 1, 2, 3}, lesson_id \in 1..(MaxGrantLessons + 1) :
          GetLessonById(header, lesson_id)

----------------------------------------------------------------------------
(* get_current_user in concurrent requests *)

\* Each request has its own session and connection (get_session); the awaits
\* of get_current_user and ensure_user are the points where the event loop
\* switches between requests. A SELECT outside a transaction reads what is
\* committed; the INSERT of a flush begins the transaction and takes the write
\* lock of the SQLite file, which the commit releases.
AuthReqs == 1..MaxAuthReqs

\* The Telegram ids the concurrent requests carry.
AuthTgIds == 1..MaxTg

\* No row flushed.
NoRow == [id |-> 0, telegram_id |-> 0, username |-> CsNone]

\* Table users is empty, or holds the user of Telegram id 1 with its role.
AuthInit ==
    /\ cpc = [p \in AuthReqs |-> "lookup"]
    /\ ctg \in [AuthReqs -> AuthTgIds]
    /\ \/ cusers = {} /\ croles = {}
       \/ /\ cusers = {[id |-> 1, telegram_id |-> 1, username |-> CsNone]}
          /\ croles = {<<1, "student">>}
    /\ cpending = [p \in AuthReqs |-> NoRow]
    /\ clock = 0
    /\ cme = [p \in AuthReqs |-> 0]

AuthIdle ==
    /\ cpc = [p \in AuthReqs |-> "idle"]
    /\ ctg = [p \in AuthReqs |-> 0]
    /\ cusers = {}
    /\ croles = {}
    /\ cpending = [p \in AuthReqs |-> NoRow]
    /\ clock = 0
    /\ cme = [p \in AuthReqs |-> 0]

\* user = await users_repo.get_user_by_tg(session, x_debug_tg_id): a user found
\* is returned.
AuthLookup(p) ==
    /\ cpc[p] = "lookup"
    /\ IF UserByTg(cusers, ctg[p]) # {}
       THEN /\ cpc' = [cpc EXCEPT ![p] = "ok"]
            /\ cme' = [cme EXCEPT ![p] = (CHOOSE u \in UserByTg(cusers, ctg[p]) : TRUE).id]
       ELSE /\ cpc' = [cpc EXCEPT ![p] = "select"]
            /\ UNCHANGED cme
    /\ UNCHANGED <<ctg, cusers, croles, cpending, clock>>
    /\ UNCHANGED notAuth

\* The select of ensure_user. A user found by now has its role, nothing is
\* written and the commit is empty.
AuthSelect(p) ==
    /\ cpc[p] = "select"
    /\ IF UserByTg(cusers, ctg[p]) # {}
       THEN /\ cpc' = [cpc EXCEPT ![p] = "commit"]
            /\ cme' = [cme EXCEPT ![p] = (CHOOSE u \in UserByTg(cusers, ctg[p]) : TRUE).id]
       ELSE /\ cpc' = [cpc EXCEPT ![p] = "flush"]
            /\ UNCHANGED cme
    /\ UNCHANGED <<ctg, cusers, croles, cpending, clock>>
    /\ UNCHANGED notAuth

\* session.add(user); await session.flush(): the INSERT waits while another
\* connection holds the write lock (busy timeout); telegram_id is unique, so
\* with a committed row of that telegram_id the INSERT raises IntegrityError,
\* which leaves get_current_user: the request is answered 500 and its session
\* is rolled back.
AuthFlush(p) ==
    /\ cpc[p] = "flush"
    /\ clock = 0
    /\ IF UserByTg(cusers, ctg[p]) # {}
       THEN /\ cpc' = [cpc EXCEPT ![p] = "failed"]
            /\ UNCHANGED <<cpending, clock>>
       ELSE /\ cpc' = [cpc EXCEPT ![p] = "commit"]
            /\ cpending' = [cpending EXCEPT ![p] =
                               [id |-> Cardinality(cusers) + 1, telegram_id |-> ctg[p],
                                username |-> CsNone]]
            /\ clock' = p
    /\ UNCHANGED <<ctg, cusers, croles, cme>>
    /\ UNCHANGED notAuth

\* _ensure_student_role and await session.commit(): the row flushed and the
\* role student are committed and the write lock is released.
AuthCommit(p) ==
    /\ cpc[p] = "commit"
    /\ IF cpending[p] # NoRow
       THEN /\ cusers' = cusers \cup {cpending[p]}
            /\ croles' = EnsureStudentRole(croles, cpending[p].id)
            /\ cme' = [cme EXCEPT ![p] = cpending[p].id]
            /\ cpending' = [cpending EXCEPT ![p] = NoRow]
            /\ clock' = 0
       ELSE UNCHANGED <<cusers, croles, cme, cpending, clock>>
    /\ cpc' = [cpc EXCEPT ![p] = "ok"]
    /\ UNCHANGED ctg
    /\ UNCHANGED notAuth

AuthNext ==
    \/ \E p \in AuthReqs : AuthLookup(p)
    \/ \E p \in AuthReqs : AuthSelect(p)
    \/ \E p \in AuthReqs : AuthFlush(p)
    \/ \E p \in AuthReqs : AuthCommit(p)

----
(* Specifications *)

InitMeta ==
    MetaInit /\ DecideIdle /\ RenderIdle /\ WriteIdle
     /\ UploadIdle /\ AccessIdle /\ BlocksIdle /\ SubjectsIdle /\ UsersIdle
     /\ NamesIdle /\ GrantsIdle /\ AuthIdle

SpecMeta == InitMeta /\ [][MetaNext]_vars

InitDecide ==
    DecideInit /\ MetaIdle /\ RenderIdle /\ WriteIdle
     /\ UploadIdle /\ AccessIdle /\ BlocksIdle /\ SubjectsIdle /\ UsersIdle
     /\ NamesIdle /\ GrantsIdle /\ AuthIdle

SpecDecide == InitDecide /\ [][DecideNext]_vars

InitRender ==
    RenderInit /\ MetaIdle /\ DecideIdle /\ WriteIdle
     /\ UploadIdle /\ AccessIdle /\ BlocksIdle /\ SubjectsIdle /\ UsersIdle
     /\ NamesIdle /\ GrantsIdle /\ AuthIdle

SpecRender == InitRender /\ [][RenderNext]_vars

InitWrite ==
    WriteInit /\ MetaIdle /\ DecideIdle /\ RenderIdle
     /\ UploadIdle /\ AccessIdle /\ BlocksIdle /\ SubjectsIdle /\ UsersIdle
     /\ NamesIdle /\ GrantsIdle /\ AuthIdle

SpecWrite == InitWrite /\ [][WriteNext]_vars

InitUpload ==
    UploadInit /\ MetaIdle /\ DecideIdle /\ RenderIdle
     /\ WriteIdle /\ AccessIdle /\ BlocksIdle /\ SubjectsIdle /\ UsersIdle
     /\ NamesIdle /\ GrantsIdle /\ AuthIdle

SpecUpload == InitUpload /\ [][UploadNext]_vars

InitAccess ==
    AccessInit /\ MetaIdle /\ DecideIdle /\ RenderIdle
     /\ WriteIdle /\ UploadIdle /\ BlocksIdle /\ SubjectsIdle /\ UsersIdle
     /\ NamesIdle /\ GrantsIdle /\ AuthIdle

SpecAccess == InitAccess /\ [][AccessNext]_vars

InitBlocks ==
    BlocksInit /\ MetaIdle /\ DecideIdle /\ RenderIdle
     /\ WriteIdle /\ UploadIdle /\ AccessIdle /\ SubjectsIdle /\ UsersIdle
     /\ NamesIdle /\ GrantsIdle /\ AuthIdle

SpecBlocks == InitBlocks /\ [][BlocksNext]_vars

InitSubjects ==
    SubjectsInit /\ MetaIdle /\ DecideIdle /\ RenderIdle
     /\ WriteIdle /\ UploadIdle /\ AccessIdle /\ BlocksIdle /\ UsersIdle
     /\ NamesIdle /\ GrantsIdle /\ AuthIdle

SpecSubjects == InitSubjects /\ [][SubjectsNext]_vars

InitUsers ==
    UsersInit /\ MetaIdle /\ DecideIdle /\ RenderIdle
     /\ WriteIdle /\ UploadIdle /\ AccessIdle /\ BlocksIdle /\ SubjectsIdle
     /\ NamesIdle /\ GrantsIdle /\ AuthIdle

SpecUsers == InitUsers /\ [][UsersNext]_vars

InitNames ==
    NamesInit /\ MetaIdle /\ DecideIdle /\ RenderIdle
     /\ WriteIdle /\ UploadIdle /\ AccessIdle /\ BlocksIdle /\ SubjectsIdle
     /\ UsersIdle /\ GrantsIdle /\ AuthIdle

SpecNames == InitNames /\ [][NamesNext]_vars

InitGrants ==
    GrantsInit /\ MetaIdle /\ DecideIdle /\ RenderIdle
     /\ WriteIdle /\ UploadIdle /\ AccessIdle /\ BlocksIdle /\ SubjectsIdle
     /\ UsersIdle /\ NamesIdle /\ AuthIdle

SpecGrants == InitGrants /\ [][GrantsNext]_vars

InitAuth ==
    AuthInit /\ MetaIdle /\ DecideIdle /\ RenderIdle /\ WriteIdle
     /\ UploadIdle /\ AccessIdle /\ BlocksIdle /\ SubjectsIdle /\ UsersIdle
     /\ NamesIdle /\ GrantsIdle

SpecAuth == InitAuth /\ [][AuthNext]_vars

----------------------------------------------------------------------------
(* Claims about _xref_meta_list, checked under SpecMeta *)

BBoxSupplied(x) == supplied.b2[x] \cup supplied.b3[x]

\* C4: every record _xref_meta_list returns has a non-null bounding box, and
\* an identifier for which no source supplied a bounding box is not returned.
C4_ReturnedHasBBox ==
    \A i \in 1..Len(out) :
        /\ BTruthy(out[i].bbox)
        /\ out[i].xref \in Xrefs
        /\ BBoxSupplied(out[i].xref) # {}

\* The call has returned, one identifier was dropped for want of a bounding
\* box, another was returned.
C4_Witness ==
    /\ mpc = "done"
    /\ Len(out) >= 1
    /\ \E x \in Xrefs : Has(meta, x) /\ ~Has(out, x) /\ BBoxSupplied(x) = {}

\* C8: the merge returns one record per identifier; its bounding box is one
\* source 2 supplied if source 2 supplied any, else one source 3 supplied;
\* its soft mask and hard mask are null exactly when no source supplied a
\* non-null one and otherwise a supplied one; its colorspace tag is the one of
\* source 1 (null when source 1 does not list the identifier).
C8_MergePriorities ==
    mpc = "done" =>
        /\ \A i, j \in 1..Len(out) : out[i].xref = out[j].xref => i = j
        /\ \A x \in Xrefs : Has(out, x) <=> BBoxSupplied(x) # {}
        /\ \A i \in 1..Len(out) :
             LET r == out[i]
                 x == r.xref
             IN  /\ IF supplied.b2[x] # {}
                    THEN r.bbox \in supplied.b2[x]
                    ELSE r.bbox \in supplied.b3[x]
                 /\ IF supplied.sm[x] = {}
                    THEN r.smask = NoneVal
                    ELSE r.smask \in supplied.sm[x]
                 /\ IF supplied.mk[x] = {}
                    THEN r.mask = NoneVal
                    ELSE r.mask \in supplied.mk[x]
                 /\ r.cs = IF supplied.cs[x] = <<>> THEN CsNone ELSE supplied.cs[x][1]

\* An identifier all three sources know: source 2 and source 3 disagree on
\* the bounding box, a soft mask and a colorspace tag were supplied.
C8_Witness ==
    /\ mpc = "done"
    /\ \E x \in Xrefs :
         /\ Has(out, x)
         /\ supplied.b2[x] # {}
         /\ supplied.b3[x] \ supplied.b2[x] # {}
         /\ supplied.sm[x] # {}
         /\ supplied.cs[x] = <<CsDeviceCMYK>>

\* C9 as claimed: once a record's bounding box, soft mask or hard mask is
\* non-null, no later step of the merge changes it.
C9_FirstNonNullKept ==
    [][\A x \in Xrefs :
          Has(meta, x) =>
              /\ BTruthy(Get(meta, x).bbox) => Get(meta', x).bbox = Get(meta, x).bbox
              /\ Truthy(Get(meta, x).smask) => Get(meta', x).smask = Get(meta, x).smask
              /\ Truthy(Get(meta, x).mask) => Get(meta', x).mask = Get(meta, x).mask]_vars

\* The step is an iteration of pass 2.
Src2Iteration == mpc = "src2" /\ mpc' = "src2" /\ mcount' = mcount + 1

\* C9 as amended: a non-null bounding box or mask reference is never reset to
\* null and never replaced by a source-3 record; a source-2 record overwrites
\* it with every non-null value it carries, so that after each iteration of
\* pass 2 the record holds the last non-null values source 2 supplied.
C9_Src2OverwritesOthersKeep ==
    [][/\ \A x \in Xrefs :
            Has(meta, x) =>
                /\ Has(meta', x)
                /\ BTruthy(Get(meta, x).bbox) =>
                      /\ BTruthy(Get(meta', x).bbox)
                      /\ Get(meta', x).bbox # Get(meta, x).bbox => Src2Iteration
                /\ Truthy(Get(meta, x).smask) =>
                      /\ Truthy(Get(meta', x).smask)
                      /\ Get(meta', x).smask # Get(meta, x).smask => Src2Iteration
                /\ Truthy(Get(meta, x).mask) =>
                      /\ Truthy(Get(meta', x).mask)
                      /\ Get(meta', x).mask # Get(meta, x).mask => Src2Iteration
       /\ Src2Iteration =>
            \A x \in Xrefs :
                /\ BTruthy(supplied'.l2b[x]) =>
                      Has(meta', x) /\ Get(meta', x).bbox = supplied'.l2b[x]
                /\ Truthy(supplied'.l2s[x]) =>
                      Has(meta', x) /\ Get(meta', x).smask = supplied'.l2s[x]
                /\ Truthy(supplied'.l2m[x]) =>
                      Has(meta', x) /\ Get(meta', x).mask = supplied'.l2m[x]]_vars

\* Pass 2 has supplied two bounding boxes for one identifier and the record
\* holds the second.
C9_Witness ==
    /\ mpc = "src2"
    /\ \E x \in Xrefs :
         /\ Cardinality(supplied.b2[x]) = 2
         /\ supplied.l2b[x] = BBoxB
         /\ Get(meta, x).bbox = BBoxB

----------------------------------------------------------------------------
(* Claims about _should_clip, checked under SpecDecide *)

\* pat occurs in str at some offset, letters compared without regard to case.
OccursIgnoringCase(str, pat) ==
    \E i \in 0..(Len(str) - Len(pat)) :
        \A j \in 1..Len(pat) : LowerChar(str[i + j]) = LowerChar(pat[j])

\* The decision as the claim states it.
ClipReference(m, image_mode) ==
    CASE image_mode = "clip" -> TRUE
      [] image_mode = "extract" -> FALSE
      [] image_mode = "auto" ->
            \/ m.smask # NoneVal
            \/ m.mask # NoneVal
            \/ /\ m.cs # CsNone
               /\ \/ OccursIgnoringCase(m.cs, StrCMYK)
                  \/ OccursIgnoringCase(m.cs, StrICC)

\* C3: for every region and mode _should_clip returns the reference decision:
\* clip for "clip", extract for "extract", and for "auto" clip exactly when a
\* mask reference is non-null or the tag contains CMYK or ICC in any case.
C3_DecisionIsReference ==
    dpc = "ret" => (dresult = "clip" <=> ClipReference(dmeta, dmode))

\* "auto" with no mask, decided to clip on a tag that matches only when case
\* is ignored.
C3_Witness ==
    /\ dpc = "ret"
    /\ dmode = "auto"
    /\ dmeta.smask = NoneVal
    /\ dmeta.mask = NoneVal
    /\ dmeta.cs = CsMixedIcc
    /\ dresult = "clip"

----------------------------------------------------------------------------
(* Claims about pdf_to_html and _render_page_html, checked under SpecRender *)

ImgsOf(imgs, x) == {i \in 1..Len(imgs) : imgs[i].xref = x}

\* C1 as claimed: when extraction gave nothing for a region and the clip
\* raised, only that image is omitted: no exception leaves pdf_to_html.
C1_BadImageOnlyOmitted ==
    (rlast.tried /\ rlast.failed /\ rlast.clipCalled /\ rlast.clipRaised) => rpc # "raised"

\* C2: a region whose extraction was attempted and gave no bitmap is then
\* rasterized by the clip path, and when the clip succeeds exactly one <img>,
\* made by the clip, is in images_html for it.
C2_ExtractionFailureFallsBackToClip ==
    (rlast.tried /\ rlast.failed) =>
        /\ rlast.clipCalled
        /\ ~rlast.clipRaised =>
              /\ rpc = "images"
              /\ Cardinality(ImgsOf(images_html, rlast.xref)) = 1
              /\ \A i \in ImgsOf(images_html, rlast.xref) : images_html[i].via = "clip"

\* image_mode "extract": the extraction of the second image of a page failed,
\* the clip succeeded, both images are in images_html.
C2_Witness ==
    /\ rpc = "images"
    /\ rmode = "extract"
    /\ rlast.tried /\ rlast.failed /\ rlast.clipCalled /\ ~rlast.clipRaised
    /\ Len(images_html) = 2
    /\ images_html[2].xref = rlast.xref
    /\ images_html[2].via = "clip"

\* C10 as claimed: no bitmap encoded into an <img> has an alpha channel.
C10_NoAlphaInOutput ==
    /\ \A i \in 1..Len(images_html) : ~images_html[i].alpha
    /\ \A p \in 1..Len(pages_html) :
         \A i \in 1..Len(pages_html[p][2].items) : ~pages_html[p][2].items[i].alpha
    /\ \A p \in 1..Len(html.body) :
         \A i \in 1..Len(html.body[p][2].items) : ~html.body[p][2].items[i].alpha

----------------------------------------------------------------------------
(* Claims about main's write of the output file, checked under SpecWrite *)

Complete(f) == f.exists /\ \E w \in Writers : f.data = HtmlOut(w)

\* C5 as claimed: a reader running beside the write sees the destination
\* absent or in its previous complete version, or holding a complete new
\* HTML, never a partially written file.
C5_ReaderNeverSeesPartialFile ==
    robs = dest0 \/ Complete(robs)

\* C6 as claimed: when the write of a run fails after a partial write (no
\* other run touching the path), the destination is in its prior state.
C6_FailedWriteLeavesPriorState ==
    \A w \in Writers :
        (/\ wpc[w] = "failed"
         /\ woff[w] >= 1
         /\ \A v \in Writers \ {w} : wpc[v] = "start") => dest = dest0

\* C7 as claimed: once two runs on one destination have both finished, the
\* destination holds the complete output of the run whose last step came last.
C7_LastWriterWins ==
    (\A w \in Writers : wpc[w] = "done") => dest = File(HtmlOut(lastClosed))

----------------------------------------------------------------------------
(* Claims about the page sections (SpecRender) *)

\* The spans of a page that carry text, as (block, span) positions.
TextSpans(page) ==
    UNION {{<<b, i>> : i \in {j \in 1..Len(page.text[b].spans) :
                                  page.text[b].spans[j].text # <<>>}} :
           b \in {k \in 1..Len(page.text) : page.text[k].type = 0}}

\* The image identifiers any of the three queries names on a page.
PageXrefs(page) ==
    {page.s1[i][1] : i \in 1..Len(page.s1)}
    \cup {page.s2[i].xref : i \in 1..Len(page.s2)}
    \cup {page.s3[i].number : i \in 1..Len(page.s3)}

\* Section sec has the two layers in order and is the section of page.
SectionOf(sec, page) ==
    /\ Len(sec) = 2
    /\ sec[1].cls = "text-layer"
    /\ sec[2].cls = "image-layer"
    /\ Len(sec[1].items) = Cardinality(TextSpans(page))
    /\ \A i \in 1..Len(sec[1].items) :
         \E pos \in TextSpans(page) :
            sec[1].items[i].text = SanitizeText(page.text[pos[1]].spans[pos[2]].text)
    /\ \A i \in 1..Len(sec[2].items) : sec[2].items[i].xref \in PageXrefs(page)
    /\ (page.text = <<>> /\ PageXrefs(page) = {}) =>
         (sec[1].items = <<>> /\ sec[2].items = <<>>)

\* C11: the returned document has exactly one page section per page, in page
\* order; every section has the text layer and then the image layer as its
\* two children; the section of a page without text and images has two
\* empty layers. The sections collected so far obey the same while the
\* pages are being rendered.
C11_OneSectionPerPageInOrder ==
    /\ \A p \in 1..Len(pages_html) : p <= Len(rdoc) /\ SectionOf(pages_html[p], rdoc[p])
    /\ rpc \in {"page", "images"} =>
         Len(pages_html) = rpage - 1
    /\ html.set =>
         /\ Len(html.body) = Len(rdoc)
         /\ \A p \in 1..Len(rdoc) : SectionOf(html.body[p], rdoc[p])

\* A two-page document was returned: an empty page, then a page with text
\* and an image.
C11_Witness ==
    /\ html.set
    /\ Len(rdoc) = 2
    /\ rdoc[1] = PageEmpty
    /\ html.body[1] = Section(<<>>, <<>>)
    /\ html.body[2][1].items # <<>>
    /\ html.body[2][2].items # <<>>

\* The region has no extent after scaling.
Degenerate(m, scale) ==
    (m.bbox[3] - m.bbox[1]) * scale <= 0 \/ (m.bbox[4] - m.bbox[2]) * scale <= 0

\* C12: a loop iteration on a region whose scaled width or height is <= 0
\* appends no <img>, calls neither _pixmap_from_xref_safely nor _render_clip
\* and goes on with the next region; every <img> of the page has positive
\* width and height.
C12_DegenerateRegionSkipped ==
    [][/\ (rpc = "images" /\ regions # <<>> /\ Degenerate(Head(regions), rscale)) =>
            /\ images_html' = images_html
            /\ rlast'.xref = Head(regions).xref
            /\ ~rlast'.tried
            /\ ~rlast'.clipCalled
            /\ rpc' = "images"
            /\ regions' = Tail(regions)
       /\ \A i \in 1..Len(images_html') :
            images_html'[i].width > 0 /\ images_html'[i].height > 0
       /\ \A p \in 1..Len(pages_html') : \A i \in 1..Len(pages_html'[p][2].items) :
            pages_html'[p][2].items[i].width > 0 /\ pages_html'[p][2].items[i].height > 0]_vars

\* The page with an image of width 0 and an ordinary one has been worked
\* through: only the ordinary one is in the image layer.
C12_Witness ==
    /\ rpc = "images"
    /\ rdoc[rpage] = PageFlat
    /\ regions = <<>>
    /\ Len(images_html) = 1
    /\ images_html[1].xref = 2
    /\ images_html[1].width > 0

\* C13: a span without bounding box gets no <div class="t">: the text layer
\* of every page section holds exactly one div per span that has text and a
\* bounding box.
C13_SpanWithoutBBoxSkipped ==
    \A p \in 1..Len(pages_html) :
        Len(pages_html[p][1].items) =
            Cardinality({pos \in TextSpans(rdoc[p]) :
                            rdoc[p].text[pos[1]].spans[pos[2]].bbox # NoKey})

\* C14: the document is open only while pdf_to_html is rendering pages; once
\* the call has returned or has propagated an exception the document is not
\* open, and it was closed if it had been opened.
C14_HandleClosedWhenCallEnds ==
    /\ handle = "open" => rpc \in {"page", "images"}
    /\ rpc \in {"page", "images"} => handle = "open"
    /\ rpc \in {"done", "raised"} => handle \in {"closed", "none"}
    /\ rpc = "done" => handle = "closed"
    /\ (rpc = "raised" /\ rlast.clipRaised) => handle = "closed"

\* Rendering a page raised, on the second page, and the document is closed.
C14_Witness ==
    /\ rpc = "raised"
    /\ rlast.clipRaised
    /\ rpage = 2
    /\ handle = "closed"

----------------------------------------------------------------------------
(* Claims about a failed conversion (SpecWrite) *)

\* C15: when the input cannot be opened or parsed, the run ends with the
\* error and writes nothing: the failing step leaves the destination as it
\* is, the run never opens or writes the destination afterwards, and with no
\* other run at work the destination is what it was before, absent or the
\* earlier version.
C15_OpenFailureWritesNothing ==
    [][\A w \in Writers :
          /\ (wpc[w] = "start" /\ wpc'[w] = "exit") => dest' = dest
          /\ wpc[w] = "exit" => (wpc'[w] = "exit" /\ woff'[w] = 0)
          /\ (wpc'[w] = "exit" /\ \A v \in Writers \ {w} : wpc'[v] \in {"start", "exit"})
                => dest' = dest0]_vars

\* A run failed on its input while an earlier version of the output exists,
\* and that version is still there.
C15_Witness ==
    /\ wpc[1] = "exit"
    /\ wpc[2] = "start"
    /\ dest0 = File(PrevVersion)
    /\ dest = dest0

----------------------------------------------------------------------------
(* Claims about the PDF upload endpoints (SpecUpload) *)

\* The upload is no PDF by its declared type or by its first bytes.
NotAPdf(req) == req.content_type # "application/pdf" \/ ~req.content.magic

\* C16: in each upload handler a request whose content type is not
\* application/pdf or whose bytes do not start with %PDF- ends in the
\* validation step: for an existing lesson with status 415 (404 when the
\* lesson does not exist), with pdf_to_html not called, no file written, no
\* attribute of the lesson assigned and no row changed.
C16_NonPdfRejectedBeforeAnythingIsStored ==
    [][(upc = "validate" /\ NotAPdf(ureq)) =>
          /\ upc' = "done"
          /\ ustatus' = (IF ureq.lesson_id \in LessonIds THEN 415 ELSE 404)
          /\ ~uconv'.made
          /\ ustore' = ustore
          /\ uattrs' = <<>>
          /\ urows' = urows]_vars

\* After an earlier upload was stored, a request with the right content type
\* but without the magic bytes was rejected with 415.
C16_Witness ==
    /\ upc = "done"
    /\ ustatus = 415
    /\ ureq.content_type = "application/pdf"
    /\ ~ureq.content.magic
    /\ ureq.ep = "router_pdf_html"
    /\ ustore # {}
    /\ ~uconv.made

\* C17 as claimed: a request to the router's pdf-html endpoint for an existing
\* lesson and a PDF with pages ends with status 200, the converter having
\* been called and having written the HTML to html_path, the lesson's
\* html_content being that HTML and its html_url pointing to the file.
C17_PdfHtmlUploadSucceeds ==
    (/\ upc = "done"
     /\ ureq.ep = "router_pdf_html"
     /\ ureq.lesson_id \in LessonIds
     /\ ~NotAPdf(ureq)
     /\ ureq.content.kind = "pages") =>
        /\ ustatus = 200
        /\ uconv.made
        /\ \E f \in ustore :
             /\ f.path.dir = "htmls"
             /\ f.data = HtmlFor(ureq.content)
             /\ StoredAttr(urows[ureq.lesson_id], "html_url") = AbsUrl(f.path)
        /\ StoredAttr(urows[ureq.lesson_id], "html_content") = HtmlFor(ureq.content)

----------------------------------------------------------------------------
(* Claims about access to lessons (SpecAccess) *)

\* The elements of a list.
Elems(list) == {list[i] : i \in 1..Len(list)}

\* What get_accessible_lessons_for_user returns for u on the tables after the step.
AccessibleAfter(u) ==
    Elems(AccessibleLessons(alessons', u, amembers', asubjgroups', alessongroups',
                            agrants', anow'))

\* C18 as claimed: when a call of set_lesson_groups removes the last access
\* group of a published lesson, a student whose only connection to the lesson
\* is membership of a group g that is attached to the lesson's subject and was
\* attached to the lesson no longer has the lesson in the accessible list.
C18_RemovingLessonGroupsRevokesAccess ==
    [][\A l \in ALessons, u \in AUsers, g \in AGroups :
          (/\ <<l, g>> \in alessongroups
           /\ {r \in alessongroups' : r[1] = l} = {}
           /\ <<alessons[l].subject_id, g>> \in asubjgroups'
           /\ UserGroups(amembers', u) = {g}
           /\ <<l, u>> \notin agrants'
           /\ alessons[l].group_id = NoneVal
           /\ alessons[l].status = "published")
          => l \notin AccessibleAfter(u)]_vars

\* Nothing gives access to lesson l: no access group, no personal grant, no
\* direct group, and no access group on its subject.
Ungated(l) ==
    /\ {r \in alessongroups : r[1] = l} = {}
    /\ {r \in agrants : r[1] = l} = {}
    /\ alessons[l].group_id = NoneVal
    /\ {r \in asubjgroups : r[1] = alessons[l].subject_id} = {}

\* C19: the list get_accessible_lessons_for_user returns never holds a lesson
\* that has no access group, no personal grant and no direct group and whose
\* subject has no access group, whatever groups the user is in.
C19_UngatedLessonInvisible ==
    aresult.user # 0 =>
        \A l \in ALessons : Ungated(l) => l \notin Elems(aresult.list)

\* A user in both groups asked: the published lesson 1 is ungated and not
\* listed, lesson 2 is listed through its access group.
C19_Witness ==
    /\ aresult.user = 1
    /\ UserGroups(amembers, 1) = AGroups
    /\ Ungated(1)
    /\ alessons[1].status = "published"
    /\ alessons[1].publish_at = Null
    /\ aresult.list = <<2>>

\* C20 as claimed: the list returned for user u holds every published lesson
\* whose publish_at is null or not in the future and that has an access
\* group u is a member of; it is in descending order of the lesson id, so it
\* holds no lesson twice.
C20_MemberSeesPublishedLesson ==
    aresult.user # 0 =>
        /\ \A l \in ALessons :
              (/\ alessons[l].status = "published"
               /\ alessons[l].publish_at = Null \/ alessons[l].publish_at[1] <= anow
               /\ \E g \in UserGroups(amembers, aresult.user) : <<l, g>> \in alessongroups)
              => l \in Elems(aresult.list)
        /\ \A i \in 1..Len(aresult.list) : \A j \in 1..Len(aresult.list) :
              i < j => aresult.list[i] > aresult.list[j]

----------------------------------------------------------------------------
(* Claims about lesson blocks (SpecBlocks) *)

\* A string that is None or holds nothing but whitespace.
Blank(v) == v = CsNone \/ \A i \in 1..Len(v) : v[i] \in Whitespace

\* A block of type text without non-blank text, or of type image without
\* non-blank image_url.
Incomplete(b) ==
    \/ b.type = "text" /\ Blank(b.text)
    \/ b.type = "image" /\ Blank(b.image_url)

HasIncompleteBlock(blocks) ==
    blocks # BlocksNone /\ \E i \in 1..Len(blocks) : Incomplete(blocks[i])

BlocksOf(l) == {r \in bblocks : r.lesson_id = l}

\* C28 as claimed: every stored text block has non-blank text, every stored
\* image block a non-blank image_url, and the positions of the blocks of a
\* lesson are exactly 1..n.
C28_StoredBlocksComplete ==
    /\ \A r \in bblocks : ~Incomplete(r)
    /\ \A l \in blessons :
          {r.position : r \in BlocksOf(l)} = 1..Cardinality(BlocksOf(l))

----------------------------------------------------------------------------
(* Claims about subjects (SpecSubjects) *)

----------------------------------------------------------------------------
(* Claims about users and roles (SpecUsers) *)

\* C23: a POST /user/ensure for tg_id leaves exactly one user with that
\* telegram_id. A user that did not exist is created with the fields sent and
\* the role student alone; a user that existed keeps its id, takes the
\* username sent unless it is null, and keeps its roles, or gets student if
\* it had none. The user has a role after the call, the answer is 200 with
\* the stored profile, no other user changes, and no telegram_id ever has two
\* users.
C23_EnsureUserFindsOrCreates ==
    [][usrresp'.op = "ensure" =>
          LET tg == usrresp'.tg_id
              before == UserByTg(users, tg)
              after == UserByTg(users', tg)
          IN  /\ Cardinality(after) = 1
              /\ \A u \in after :
                    /\ before = {} =>
                          /\ u.username = usrresp'.username
                          /\ RolesOf(user_roles', u.id) = {"student"}
                    /\ \A b \in before :
                          /\ u.id = b.id
                          /\ u.username = IF usrresp'.username # CsNone
                                          THEN usrresp'.username ELSE b.username
                          /\ RolesOf(user_roles', u.id) =
                                IF RolesOf(user_roles, b.id) = {} THEN {"student"}
                                ELSE RolesOf(user_roles, b.id)
                    /\ RolesOf(user_roles', u.id) # {}
                    /\ usrresp'.status = 200
                    /\ usrresp'.profile = u.username
                    /\ usrresp'.roles = RolesOf(user_roles', u.id)
              /\ \A v \in users : v.telegram_id # tg =>
                    /\ v \in users'
                    /\ RolesOf(user_roles', v.id) = RolesOf(user_roles, v.id)
              /\ \A t \in TgIds : Cardinality(UserByTg(users', t)) <= 1]_vars

\* Two users exist; POST /user/ensure for the user holding admin sent a
\* username, which was stored, and the user still holds admin alone.
C23_Witness ==
    /\ usrresp.op = "ensure"
    /\ usrresp.tg_id = 1
    /\ usrresp.username = <<"a">>
    /\ usrresp.profile = <<"a">>
    /\ usrresp.roles = {"admin"}
    /\ Cardinality(users) = 2
    /\ \A u \in users : RolesOf(user_roles, u.id) # {}

\* The roles the user with telegram_id tg holds in a table pair.
RolesOfTg(table, links, tg) ==
    UNION {RolesOf(links, u.id) : u \in UserByTg(table, tg)}

----------------------------------------------------------------------------
(* Claims about file names (SpecNames) *)

\* A result of sanitize_filename as C24 describes it.
WellFormedPdfName(result) ==
    /\ result # <<>>
    /\ EndsWith(Lower(result), DotPdf)
    /\ Len(result) <= NameLimit
    /\ \A i \in 1..Len(result) : result[i] \notin CtrlChars \cup WinForbidden

\* C24: for every input name, None, empty, blank and longer than 180
\* characters included, the result of sanitize_filename is non-empty, ends with
\* ".pdf" whatever the case, has at most 180 characters and holds no control
\* character and none of \ / : * ? " < > |.
C24_SanitizedNameKeepsPdfAndLimit ==
    nsan # NoSanitize => WellFormedPdfName(nsan.result)

\* C25: unique_named_path returns the file name itself when it is free and
\* otherwise stem-i.ext for the smallest i >= 1 that is free, so the path does
\* not exist at the call and an upload leaves every file stored before it as
\* it was.
C25_UploadNeverOverwrites ==
    [][ncount' # ncount =>
          /\ ~NameExists(nfiles, nlast'.path)
          /\ \A f \in nfiles : f \in nfiles'
          /\ IF ~NameExists(nfiles, nlast'.name) THEN nlast'.path = nlast'.name
             ELSE \E i \in 1..MaxUploads :
                      /\ nlast'.path = Candidate(nlast'.name, i)
                      /\ \A j \in 1..(i - 1) :
                             NameExists(nfiles, Candidate(nlast'.name, j))]_vars

\* a.pdf was uploaded while a.pdf and a-1.pdf were stored: it went to a-2.pdf
\* and three files are kept.
C25_Witness ==
    /\ nlast.name = <<"a">> \o DotPdf
    /\ nlast.path = <<"a", "-", "2">> \o DotPdf
    /\ Cardinality(nfiles) = 3
    /\ NameExists(nfiles, <<"a", "-", "1">> \o DotPdf)

----------------------------------------------------------------------------
(* Claims about personal grants and the lesson detail endpoint (SpecGrants) *)

\* The lesson ids get_accessible_lessons_for_user returns for user_id on the
\* tables as they are; no subject has an access group.
GAccessible(user_id) ==
    Elems(AccessibleLessons(glessons, user_id, gmembers, {}, glessongroups, ggrants,
                            GNow))

\* C27 as claimed: once a create-lesson or patch-lesson request that lists a
\* Telegram id in user_tg_ids is committed, the user of that id has a row in
\* lesson_access_users for the lesson, and a lesson that is published with
\* publish_at null or past is in that user's accessible lessons.
C27_PersonalGrantsEffective ==
    (gresp.op \in {"create", "patch"} /\ gresp.committed)
    => \A i \in 1..Len(gresp.user_tg_ids) :
          /\ UserByTg(gusers, gresp.user_tg_ids[i]) # {}
          /\ \A u \in UserByTg(gusers, gresp.user_tg_ids[i]) :
                /\ <<gresp.lesson, u.id>> \in ggrants
                /\ (/\ glessons[gresp.lesson].status = "published"
                    /\ glessons[gresp.lesson].publish_at = Null)
                   => gresp.lesson \in GAccessible(u.id)

\* The callers of the last request that hold neither admin nor teacher.
PlainCallers ==
    {u \in UserByTg(gusers, gresp.header) : RolesOf(guser_roles, u.id) \cap Staff = {}}

----------------------------------------------------------------------------
(* Claims about concurrent first requests (SpecAuth) *)

\* C30 as claimed: in every interleaving of concurrent requests carrying the
\* same Telegram id no user had, at most one users row of that id is
\* committed, no request fails, and a request that is through is
\* authenticated as the user of the one row of its id.
C30_ConcurrentFirstRequestsAuthenticated ==
    /\ \A tg \in AuthTgIds : Cardinality(UserByTg(cusers, tg)) <= 1
    /\ \A p \in AuthReqs :
          /\ (\E q \in AuthReqs \ {p} : ctg[q] = ctg[p]) => cpc[p] # "failed"
          /\ cpc[p] = "ok" => \E u \in UserByTg(cusers, ctg[p]) : u.id = cme[p]

====
